---- MODULE Spec2Model ----
(***************************************************************************)
(* Model of the news feed of the intranet (src/lib/ui/news.py): the source *)
(* adapters, the st.cache_data decorators in front of them, the title      *)
(* deduplicator, the summarizer and the two tabs of render_news_section.   *)
(*                                                                         *)
(*   Spec           one session running the General Market tab            *)
(*   SpecAdapter    each adapter on any provider response and limit       *)
(*   SpecDedup      deduplicate_articles on any short list of articles    *)
(*   SpecCache      one caller, one function, time passing                *)
(*   SpecFlight     concurrent sessions calling a decorated function      *)
(*   SpecSummary    summarize_article_gemini called again and again       *)
(*   SpecPortfolio  one session running the Portfolio tab                 *)
(*                                                                         *)
(* Text is a sequence of one-character strings.  A Python value that may   *)
(* be None is a record [k |-> "none"] or [k |-> "str", s |-> text].        *)
(***************************************************************************)
EXTENDS Integers, Sequences, FiniteSets, TLC

VARIABLES
    pc,                 \* position of the script run inside render_news_section
    gnews_articles,     \* news.py:237
    newsdata_articles,  \* news.py:238
    yahoo_articles,     \* news.py:239
    articles,           \* news.py:242-243
    idx,                \* position of the "for a in articles" loop, news.py:249
    shown,              \* the (title, description) pairs handed to the summarizer and displayed
    calls,              \* the source functions invoked by the current script run, in order
    renders,            \* number of script runs started
    cache,              \* the entries st.cache_data holds: [key, value, at]
    now,                \* the clock, in seconds
    fn,                 \* the function a single caller calls again and again over time
    last,               \* the last completed call of that function
    fetched,            \* the last run of the function's body: when, what it returned, whether it failed
    ticks,              \* number of clock advances so far
    call,               \* the adapter call exercised last: adapter, provider response, limit
    result,             \* what that call returned
    sess,               \* per concurrent session: where its call of a decorated function stands
    lock,               \* per cache key: the session computing the key's value, or 0
    fetches,            \* per cache key: runs of the function's body so far
    stocks,             \* news.py:279, the companies of the watch list
    selected,           \* news.py:285, the option chosen in the select box
    company,            \* position of the "for s in stocks[:5]" loop, news.py:291
    news,               \* news.py:292-296, what the chain returned for the current company
    feed,               \* the rows of the table intranet_feed_messages: their ids, in order of creation
    posted,             \* number of messages inserted so far
    members,            \* the rows of the table intranet_authentication
    session_state,      \* per browser session: st.session_state
    thread,             \* per browser session: the handler its script run is in, and the handler's locals
    cookies,            \* per browser: the value of the auth_token cookie
    history             \* what the handlers did so far: codes accepted, rows written

pipeVars  == <<pc, gnews_articles, newsdata_articles, yahoo_articles, articles, idx, shown, calls, renders>>
cacheVars == <<cache, now>>
histVars  == <<fn, last, fetched, ticks>>
adapterVars == <<call, result>>
flightVars == <<sess, lock, fetches>>
portfolioVars == <<stocks, selected, company, news>>
appVars   == <<feed, posted, members, session_state, thread, cookies, history>>
newsVars  == <<pipeVars, cacheVars, histVars, adapterVars, flightVars, portfolioVars>>
vars      == <<newsVars, appVars>>

\* what the actions of each specification leave alone
offGeneral == <<histVars, adapterVars, flightVars, portfolioVars, appVars>>
offAdapter == <<cacheVars, histVars, flightVars, portfolioVars, appVars>>
offCache   == <<pipeVars, adapterVars, flightVars, portfolioVars, appVars>>
offFlight  == <<pipeVars, histVars, call, result, portfolioVars, appVars>>

-----------------------------------------------------------------------------
(* Python values *)

None == [k |-> "none"]
Str(s) == [k |-> "str", s |-> s]

\* Python's "x or default" for a text value: None and "" are falsy.
OrText(v, default) == IF v.k = "none" THEN default ELSE IF v.s = <<>> THEN default ELSE v.s

UPPER == <<"A","B","C","D","E","F","G","H","I","J","K","L","M","N","O","P","Q","R","S","T","U","V","W","X","Y","Z">>
LOWER == <<"a","b","c","d","e","f","g","h","i","j","k","l","m","n","o","p","q","r","s","t","u","v","w","x","y","z">>
DIGITS == {"0","1","2","3","4","5","6","7","8","9"}
SPACES == {" "}

LowerChar(c) == IF \E i \in 1..Len(UPPER) : UPPER[i] = c
                THEN LOWER[CHOOSE i \in 1..Len(UPPER) : UPPER[i] = c]
                ELSE c

\* str.lower()
lower(s) == [i \in 1..Len(s) |-> LowerChar(s[i])]

\* str.strip(): leading and trailing whitespace removed
strip(s) ==
    LET keep == {i \in 1..Len(s) : s[i] \notin SPACES}
        lo == CHOOSE i \in keep : \A j \in keep : i <= j
        hi == CHOOSE i \in keep : \A j \in keep : j <= i
    IN IF keep = {} THEN <<>> ELSE SubSeq(s, lo, hi)

RECURSIVE Filter(_, _)
Filter(s, ok) == IF s = <<>> THEN <<>>
                 ELSE IF Head(s) \in ok THEN <<Head(s)>> \o Filter(Tail(s), ok)
                 ELSE Filter(Tail(s), ok)

\* re.sub(r"<[^>]+>", "", text or "").strip(): leftmost tags removed, left to right
RECURSIVE RemoveTags(_)
RemoveTags(s) ==
    IF s = <<>> THEN <<>>
    ELSE IF Head(s) = "<" /\ \E j \in 2..Len(s) : s[j] = ">"
         THEN LET j == CHOOSE j \in 2..Len(s) : s[j] = ">" /\ \A m \in 2..(j-1) : s[m] # ">"
              IN IF j >= 3 THEN RemoveTags(SubSeq(s, j + 1, Len(s)))
                 ELSE <<Head(s)>> \o RemoveTags(Tail(s))
         ELSE <<Head(s)>> \o RemoveTags(Tail(s))

strip_html(v) == strip(RemoveTags(OrText(v, <<>>)))

\* str.split() with no argument: the maximal runs of non-whitespace characters
RECURSIVE SplitLoop(_, _, _)
SplitLoop(s, cur, acc) ==
    IF s = <<>> THEN (IF cur = <<>> THEN acc ELSE Append(acc, cur))
    ELSE IF Head(s) \in SPACES
         THEN SplitLoop(Tail(s), <<>>, IF cur = <<>> THEN acc ELSE Append(acc, cur))
         ELSE SplitLoop(Tail(s), Append(cur, Head(s)), acc)

split(s) == SplitLoop(s, <<>>, <<>>)

\* " ".join(words)
RECURSIVE join(_)
join(words) == IF words = <<>> THEN <<>>
               ELSE IF Len(words) = 1 THEN words[1]
               ELSE words[1] \o <<" ">> \o join(Tail(words))

-----------------------------------------------------------------------------
(* difflib.SequenceMatcher(None, a, b), for texts shorter than 200 characters *)
(* (no junk, and the "popular element" heuristic needs 200 or more).          *)

\* length of the common run of a[i..ahi] and b[j..bhi] starting at i and j
RECURSIVE MatchLen(_, _, _, _, _, _)
MatchLen(a, b, i, j, ahi, bhi) ==
    IF i > ahi \/ j > bhi THEN 0
    ELSE IF a[i] # b[j] THEN 0
    ELSE 1 + MatchLen(a, b, i + 1, j + 1, ahi, bhi)

\* find_longest_match: the longest block, of those the one starting earliest in a,
\* of those the one starting earliest in b
find_longest_match(a, b, alo, ahi, blo, bhi) ==
    LET P == (alo..ahi) \X (blo..bhi)
        K(p) == MatchLen(a, b, p[1], p[2], ahi, bhi)
        Better(p, q) == \/ K(p) > K(q)
                        \/ K(p) = K(q) /\ p[1] < q[1]
                        \/ K(p) = K(q) /\ p[1] = q[1] /\ p[2] <= q[2]
        best == CHOOSE p \in P : \A q \in P : Better(p, q)
    IN IF P = {} THEN [i |-> alo, j |-> blo, k |-> 0]
       ELSE [i |-> best[1], j |-> best[2], k |-> K(best)]

\* get_matching_blocks: total size of the matching blocks
RECURSIVE Matches(_, _, _, _, _, _)
Matches(a, b, alo, ahi, blo, bhi) ==
    IF alo > ahi \/ blo > bhi THEN 0
    ELSE LET m == find_longest_match(a, b, alo, ahi, blo, bhi)
         IN IF m.k = 0 THEN 0
            ELSE m.k + Matches(a, b, alo, m.i - 1, blo, m.j - 1)
                     + Matches(a, b, m.i + m.k, ahi, m.j + m.k, bhi)

\* ratio() = 2.0 * M / T as the fraction <<2M, T>>; 1.0 when both are empty
ratio(a, b) ==
    IF Len(a) + Len(b) = 0 THEN <<1, 1>>
    ELSE <<2 * Matches(a, b, 1, Len(a), 1, Len(b)), Len(a) + Len(b)>>

\* ratio() > 0.9
RatioAbove09(a, b) == LET r == ratio(a, b) IN 10 * r[1] > 9 * r[2]

-----------------------------------------------------------------------------
(* deduplicate_articles, news.py:208-224 *)

PUNCT_KEPT == {LOWER[i] : i \in 1..Len(LOWER)} \cup DIGITS \cup SPACES

\* news.py:213-214
NormTitle(art) == Filter(strip(lower(OrText(art.title, <<>>))), PUNCT_KEPT)

\* the loop comparing a title with the title of the article just before it only
RECURSIVE DedupLoop_previous_only(_, _, _)
DedupLoop_previous_only(arts, seen, unique) ==
    IF arts = <<>> THEN unique
    ELSE LET art == Head(arts)
             title == NormTitle(art)
         IN IF title = <<>> THEN DedupLoop_previous_only(Tail(arts), seen, unique)
            ELSE IF \E i \in 1..Len(seen) : RatioAbove09(title, seen[i])
                 THEN DedupLoop_previous_only(Tail(arts), <<title>>, unique)
            ELSE DedupLoop_previous_only(Tail(arts), <<title>>, Append(unique, art))

\* the loop remembering the titles of dropped articles too
RECURSIVE DedupLoop_seen_all(_, _, _)
DedupLoop_seen_all(arts, seen, unique) ==
    IF arts = <<>> THEN unique
    ELSE LET art == Head(arts)
             title == NormTitle(art)
         IN IF title = <<>> THEN DedupLoop_seen_all(Tail(arts), seen, unique)
            ELSE IF \E i \in 1..Len(seen) : RatioAbove09(title, seen[i])
                 THEN DedupLoop_seen_all(Tail(arts), Append(seen, title), unique)
            ELSE DedupLoop_seen_all(Tail(arts), Append(seen, title), Append(unique, art))

RECURSIVE DedupLoop(_, _, _)
DedupLoop(arts, seen, unique) ==
    IF arts = <<>> THEN unique
    ELSE LET art == Head(arts)
             title == NormTitle(art)
         IN IF title = <<>> THEN DedupLoop(Tail(arts), seen, unique)
            ELSE IF \E i \in 1..Len(seen) : RatioAbove09(title, seen[i])
                 THEN DedupLoop(Tail(arts), seen, unique)
            ELSE DedupLoop(Tail(arts), Append(seen, title), Append(unique, art))

deduplicate_articles(arts) == DedupLoop(arts, <<>>, <<>>)

-----------------------------------------------------------------------------
(* What the providers may answer.  A provider record carries the fields the *)
(* adapters read (title, description, and "source" where its shape        *)
(* matters); url and date fields are copied through by the adapters and    *)
(* read by no decision of the pipeline.                                    *)

Rec(t, d) == [title |-> t, description |-> d]

GNewsCatalogue == <<
    Rec(Str(<<"P","r","o","f","i","t","s">>), Str(<<"<","b",">","U","p","<","/","b",">">>)),
    Rec(Str(<<"p","r","o","f","i","t","!">>), None),
    Rec(None, Str(<<"x">>)),
    Rec(Str(<<"O","i","l">>), Str(<<>>)),
    Rec(Str(<<"N","o"," ","t","i","t","l","e">>), None),
    Rec(Str(<<"G","o","l","d">>), None),
    Rec(Str(<<"B","o","n","d","s">>), None),
    Rec(Str(<<"F","e","d">>), None) >>

NewsDataCatalogue == <<
    Rec(Str(<<"R","a","t","e","s">>), None),
    Rec(Str(<<>>), Str(<<"y">>)),
    Rec(Str(<<"?","!">>), None) >>

\* an RSS entry without a title element has title None
YahooCatalogue == <<
    Rec(Str(<<"S","t","o","c","k","s">>), Str(<<"<","p",">","z">>)),
    Rec(None, None) >>

\* yfinance news items; "description" stands for the item's "summary"
YFCatalogue == <<
    Rec(Str(<<"C","h","i","p","s">>), Str(<<"s">>)),
    Rec(None, None),
    Rec(Str(<<"A","S","M","L">>), None) >>

RECURSIVE Pick(_, _, _)
Pick(cat, S, i) == IF i > Len(cat) THEN <<>>
                   ELSE (IF i \in S THEN <<cat[i]>> ELSE <<>>) \o Pick(cat, S, i + 1)

\* every list of records a provider can deliver: the sub-lists of its catalogue
Lists(cat) == {Pick(cat, S, 1) : S \in SUBSET (1..Len(cat))}

\* an aggregator answers with a record list, with a document lacking the list key,
\* or not at all (network error, timeout, invalid JSON, records of a wrong shape)
ApiResponses(cat) == {[kind |-> "error"], [kind |-> "nokey"]}
                     \cup {[kind |-> "ok", records |-> l] : l \in Lists(cat)}

\* records of a shape the adapters do not expect: a list element that is no
\* object, and a "source" that is null instead of an object; beside them a
\* record that has an object without a name as its source, and one with every
\* key but the title absent
NotAnObject == [scalar |-> TRUE]

ShapeCatalogue == <<
    [title |-> Str(<<"R","a","t","e","s">>), description |-> None,
     source |-> [k |-> "dict", name |-> None]],
    NotAnObject,
    [title |-> None, description |-> Str(<<"x">>), source |-> [k |-> "null"]],
    Rec(Str(<<"F","e","d">>), None) >>

\* documents of a shape the adapters do not expect: not an object at all, or
\* with something that is no list under the list key
ShapeResponses(cat) == {[kind |-> "baddoc"], [kind |-> "badlist"]} \cup ApiResponses(cat)

FeedResponses(cat) == {[kind |-> "ok", records |-> l] : l \in Lists(cat)}

\* the watch list: a ticker and the answer of its metadata lookup
WatchCatalogue == <<
    [ticker |-> <<"A","S","M","L">>,
     info |-> [kind |-> "ok", shortName |-> Str(<<"A","S","M","L"," ","N","V">>), longName |-> None]],
    [ticker |-> <<"F","O","O",".","P","A">>, info |-> [kind |-> "error"]] >>

WatchResponses(cat) == {[kind |-> "error"]} \cup {[kind |-> "ok", rows |-> l] : l \in Lists(cat)}

\* yfinance raises, has no news attribute value (None), or delivers a list
TickerResponses(cat) == {[kind |-> "error"], [kind |-> "none"]}
                        \cup {[kind |-> "ok", records |-> l] : l \in Lists(cat)}

-----------------------------------------------------------------------------
(* The source adapters, news.py:37-139 *)

Min(a, b) == IF a <= b THEN a ELSE b

\* seq[:n] for n >= 0
Take(s, n) == SubSeq(s, 1, Min(n, Len(s)))

\* The dict an adapter builds.  "adapter" records which adapter built it; the
\* url, publishedAt and source-name fields are copied through and not modelled.
Article(t, d, by) == [title |-> t, description |-> d, adapter |-> by]

\* news.py:38-54
fetch_yahoo_rss(resp, limit) ==
    LET entries == Take(resp.records, limit)
    IN [i \in 1..Len(entries) |->
           Article(IF entries[i].title.k = "none"
                   THEN Str(<<"N","o"," ","t","i","t","l","e">>)
                   ELSE entries[i].title,
                   strip_html(entries[i].description), "fetch_yahoo_rss")]

\* a record of a provider's list that is a JSON object (its keys may be absent)
IsDict(rec) == "title" \in DOMAIN rec

\* a.get("source", {}): the value under the key, the default {} when it is absent
SourceOf(rec) == IF "source" \in DOMAIN rec THEN rec.source ELSE [k |-> "dict", name |-> None]

\* how a block of code ends: with a value, or with an exception of some kind
Return(v) == [raised |-> FALSE, value |-> v]
Raise(exc) == [raised |-> TRUE, exc |-> exc, value |-> <<>>]

\* an except clause that handles only the errors of the HTTP request
Handled_request_only(exc) == exc = "error"

\* news.py:73, 96: `except Exception` handles every kind of error
Handled(exc) == exc \in {"error", "baddoc", "badlist", "record"}

\* news.py:60-72, the try block: requests.get or res.json raises ("error"); the
\* document is not an object ("baddoc"); the list key is absent; the value under
\* it is no list ("badlist"); a.get(...) raises on a record that is no object
newsdata_try(resp, limit) ==
    IF resp.kind \in {"error", "baddoc", "badlist"} THEN Raise(resp.kind)
    ELSE IF resp.kind = "nokey" THEN Return(<<>>)
    ELSE LET arts == Take(resp.records, limit)
         IN IF \E i \in 1..Len(arts) : ~IsDict(arts[i]) THEN Raise("record")
            ELSE Return([i \in 1..Len(arts) |->
                     Article(arts[i].title, strip_html(arts[i].description), "fetch_newsdata")])

\* news.py:59-75, the try statement
fetch_newsdata_outcome(resp, limit) ==
    LET o == newsdata_try(resp, limit)
    IN IF o.raised /\ Handled(o.exc) THEN Return(<<>>) ELSE o

\* news.py:57-75
fetch_newsdata(resp, limit) == fetch_newsdata_outcome(resp, limit).value

\* news.py:81-95, the try block; a.get("source", {}).get("name", "GNews") raises
\* when the value under "source" is no object
gnews_try(resp, limit) ==
    IF resp.kind \in {"error", "baddoc", "badlist"} THEN Raise(resp.kind)
    ELSE IF resp.kind = "nokey" THEN Return(<<>>)
    ELSE LET arts == Take(resp.records, limit)
         IN IF \E i \in 1..Len(arts) : ~IsDict(arts[i]) \/ SourceOf(arts[i]).k # "dict"
            THEN Raise("record")
            ELSE Return([i \in 1..Len(arts) |->
                     Article(arts[i].title, strip_html(arts[i].description), "fetch_gnews")])

\* news.py:80-98, the try statement
fetch_gnews_outcome(resp, limit) ==
    LET o == gnews_try(resp, limit)
    IN IF o.raised /\ Handled(o.exc) THEN Return(<<>>) ELSE o

\* fetch_gnews with the [:limit] slice of news.py:88 left out
fetch_gnews_unsliced(resp, limit) ==
    IF resp.kind # "ok" THEN <<>>
    ELSE LET arts == resp.records
         IN IF \E i \in 1..Len(arts) : ~IsDict(arts[i]) \/ SourceOf(arts[i]).k # "dict"
            THEN <<>>
            ELSE [i \in 1..Len(arts) |->
                     Article(arts[i].title, strip_html(arts[i].description), "fetch_gnews")]

\* news.py:78-98
fetch_gnews(resp, limit) == fetch_gnews_outcome(resp, limit).value

\* news.py:121-139
fetch_yf_company(resp, limit) ==
    IF resp.kind = "error" THEN <<>>
    ELSE LET t_news == Take(IF resp.kind = "none" THEN <<>> ELSE resp.records, limit)
         IN [i \in 1..Len(t_news) |->
                Article(t_news[i].title, OrText(t_news[i].description, <<>>), "fetch_yf_company")]

\* news.py:101-119.  resp: the watch-list query failed, or its rows, each with
\* what the metadata lookup of the row's ticker answers.
get_portfolio_stocks(resp) ==
    IF resp.kind = "error" THEN <<>>
    ELSE IF resp.rows = <<>> THEN <<>>
    ELSE [i \in 1..Len(resp.rows) |->
             LET t == resp.rows[i].ticker
                 info == resp.rows[i].info
             IN [ticker |-> t,
                 name |-> IF info.kind = "error" THEN t
                          ELSE OrText(info.shortName, OrText(info.longName, t))]]

-----------------------------------------------------------------------------
(* summarize_article_gemini, news.py:142-206, and ensure_period, news.py:32-34 *)

\* s.endswith((".", "!", "?"))
EndsSentence(s) == s # <<>> /\ s[Len(s)] \in {".", "!", "?"}

\* news.py:32-34
ensure_period(s) ==
    LET t == strip(s)
    IN IF EndsSentence(t) THEN t ELSE IF t # <<>> THEN t \o <<".">> ELSE t

\* Python's `sub in s` for texts
Contains(sub, s) == \E i \in 0..(Len(s) - Len(sub)) : SubSeq(s, i + 1, i + Len(sub)) = sub

FALLBACK_WORDS == 25
TITLE_ONLY_WORDS == 5

\* news.py:148-152: the request asks for the context of the headline alone
title_only(clean_title, clean_desc) ==
    \/ clean_desc = <<>>
    \/ Contains(strip(lower(clean_desc)), lower(clean_title))
    \/ Len(split(clean_desc)) < TITLE_ONLY_WORDS

\* news.py:203-206, the except clause
FallbackSummary(clean_title, clean_desc) ==
    LET snippet == IF clean_desc # <<>> THEN clean_desc ELSE clean_title
        words == split(snippet)
    IN ensure_period(join(Take(words, FALLBACK_WORDS))
                     \o (IF Len(words) > FALLBACK_WORDS THEN <<".", ".", ".">> ELSE <<>>))

\* What the generative model service may do with one request: creating the
\* client raises (news.py:154), the generation call or reading its text raises
\* (timeout, provider error, blocked answer), or the answer carries a text,
\* which may be None or empty.
GeminiOutcomes ==
    {[kind |-> "client_error"], [kind |-> "error"]}
    \cup {[kind |-> "text", text |-> t] :
             t \in {None, Str(<<>>), Str(<<"U","p">>), Str(<<" ","U","p","!"," ">>)}}

\* news.py:142-206.  g: what the service does with the request of this call.
summarize_article_gemini(title, description, g) ==
    LET clean_title == strip_html(title)
        clean_desc == strip_html(description)
    IN IF g.kind = "client_error" THEN Raise("client")
       ELSE IF g.kind = "error" THEN Return(FallbackSummary(clean_title, clean_desc))
       ELSE LET summary == strip(OrText(g.text, <<>>))
            IN Return(IF EndsSentence(summary) THEN summary ELSE summary \o <<".">>)

-----------------------------------------------------------------------------
(* @st.cache_data(ttl=...), news.py:37, 56, 77, 100: the return value of the *)
(* decorated function is stored under (function, arguments) and served     *)
(* without running the function until ttl seconds have passed.             *)

TTL_YAHOO == 86400
TTL_NEWSDATA == 3600
TTL_GNEWS == 3600
TTL_PORTFOLIO == 1800

CacheKey(f, args) == [fn |-> f, args |-> args]

\* an entry still served at the instant its ttl has elapsed
Fresh_inclusive(key, ttl) == \E e \in cache : e.key = key /\ now - e.at <= ttl

\* cachetools.TTLCache as used by st.cache_data: an entry stored at `at` is
\* served while now < at + ttl
Fresh(key, ttl) == \E e \in cache : e.key = key /\ now - e.at < ttl

CachedValue(key) == (CHOOSE e \in cache : e.key = key).value

Store(key, v) == {e \in cache : e.key # key} \cup {[key |-> key, value |-> v, at |-> now]}

\* A call f(args) of a decorated function returning v: served from the cache
\* (ext = FALSE), or the function runs (ext = TRUE; Results: what it can return
\* now) and its value is stored.
CachedCall(f, args, ttl, Results, v, ext) ==
    LET key == CacheKey(f, args)
    IN IF Fresh(key, ttl)
       THEN /\ v = CachedValue(key)
            /\ ext = FALSE
            /\ cache' = cache
       ELSE /\ v \in Results
            /\ ext = TRUE
            /\ cache' = Store(key, v)

-----------------------------------------------------------------------------
(* render_news_section, General Market tab, news.py:234-274 *)

MaxRenders == 2

GENERAL_QUERY == "stock market OR economy OR investing"
GENERAL_FETCH == 7
GENERAL_SHOWN == 5

GNewsGeneral == {fetch_gnews(r, GENERAL_FETCH) : r \in ApiResponses(GNewsCatalogue)}
NewsDataGeneral == {fetch_newsdata(r, GENERAL_FETCH) : r \in ApiResponses(NewsDataCatalogue)}
YahooGeneral == {fetch_yahoo_rss(r, GENERAL_FETCH) : r \in FeedResponses(YahooCatalogue)}

NoCall == [some |-> FALSE]
NoFetch == [some |-> FALSE]

HistIdle == fn = "none" /\ last = NoCall /\ fetched = NoFetch /\ ticks = 0

AdapterIdle == call = [adapter |-> "none"] /\ result = <<>>

FlightIdle == sess = <<>> /\ lock = <<>> /\ fetches = <<>>

PortfolioIdle == stocks = <<>> /\ selected = None /\ company = 0 /\ news = <<>>

AppIdle ==
    /\ feed = {}
    /\ posted = 0
    /\ members = <<>>
    /\ session_state = <<>>
    /\ thread = <<>>
    /\ cookies = <<>>
    /\ history = <<>>

Init ==
    /\ pc = "gnews"
    /\ gnews_articles = <<>>
    /\ newsdata_articles = <<>>
    /\ yahoo_articles = <<>>
    /\ articles = <<>>
    /\ idx = 1
    /\ shown = <<>>
    /\ calls = <<>>
    /\ renders = 1
    /\ cache = {}
    /\ now = 0
    /\ HistIdle
    /\ AdapterIdle
    /\ FlightIdle
    /\ PortfolioIdle
    /\ AppIdle

\* news.py:237
FetchGNews ==
    /\ pc = "gnews"
    /\ \E v \in GNewsGeneral, ext \in BOOLEAN :
          /\ CachedCall("fetch_gnews", <<GENERAL_QUERY, GENERAL_FETCH>>, TTL_GNEWS, GNewsGeneral, v, ext)
          /\ gnews_articles' = v
          /\ calls' = Append(calls, [fn |-> "fetch_gnews", external |-> ext])
    /\ pc' = "newsdata"
    /\ UNCHANGED <<newsdata_articles, yahoo_articles, articles, idx, shown, renders, now, offGeneral>>

\* news.py:238
FetchNewsData ==
    /\ pc = "newsdata"
    /\ \E v \in NewsDataGeneral, ext \in BOOLEAN :
          /\ CachedCall("fetch_newsdata", <<GENERAL_QUERY, GENERAL_FETCH>>, TTL_NEWSDATA, NewsDataGeneral, v, ext)
          /\ newsdata_articles' = v
          /\ calls' = Append(calls, [fn |-> "fetch_newsdata", external |-> ext])
    /\ pc' = "yahoo"
    /\ UNCHANGED <<gnews_articles, yahoo_articles, articles, idx, shown, renders, now, offGeneral>>

\* news.py:239
FetchYahoo ==
    /\ pc = "yahoo"
    /\ \E v \in YahooGeneral, ext \in BOOLEAN :
          /\ CachedCall("fetch_yahoo_rss", <<GENERAL_FETCH>>, TTL_YAHOO, YahooGeneral, v, ext)
          /\ yahoo_articles' = v
          /\ calls' = Append(calls, [fn |-> "fetch_yahoo_rss", external |-> ext])
    /\ pc' = "combine"
    /\ UNCHANGED <<gnews_articles, newsdata_articles, articles, idx, shown, renders, now, offGeneral>>

\* the chain with the two aggregators swapped
CombineNewsDataFirst(g, n, y) == IF n # <<>> THEN n ELSE IF g # <<>> THEN g ELSE y

\* news.py:242: gnews_articles or newsdata_articles or yahoo_articles, on lists
CombineByPriority(g, n, y) == IF g # <<>> THEN g ELSE IF n # <<>> THEN n ELSE y

\* news.py:243
GeneralArticles(g, n, y) == deduplicate_articles(Take(CombineByPriority(g, n, y), GENERAL_SHOWN))

\* the loop entered whatever the list holds
AfterArticles_no_guard(a) == "show"

\* news.py:246-249, 314-318: "if not articles" shows the notice and ends the
\* tab, otherwise the loop over the articles starts
AfterArticles(a) == IF a = <<>> THEN "done" ELSE "show"

\* news.py:242-247
Combine ==
    /\ pc = "combine"
    /\ articles' = GeneralArticles(gnews_articles, newsdata_articles, yahoo_articles)
    /\ idx' = 1
    /\ pc' = AfterArticles(articles')
    /\ UNCHANGED <<gnews_articles, newsdata_articles, yahoo_articles, shown, calls, renders, cacheVars, offGeneral>>

\* news.py:250 and 266-267: what one pass of the loop hands to summarize_article_gemini
Displayed(a) == [title |-> OrText(a.title, <<"N","o"," ","t","i","t","l","e">>),
                 description |-> a.description]

\* news.py:249-274, one pass of the loop: the summarizer is called with the
\* title and description of the article; an exception it raises ends the run
Show ==
    /\ pc = "show"
    /\ idx <= Len(articles)
    /\ shown' = Append(shown, Displayed(articles[idx]))
    /\ \E g \in GeminiOutcomes :
          LET a == Displayed(articles[idx])
              o == summarize_article_gemini(Str(a.title), Str(a.description), g)
          IN IF o.raised
             THEN pc' = "crashed" /\ idx' = idx
             ELSE /\ idx' = idx + 1
                  /\ pc' = IF idx + 1 > Len(articles) THEN "done" ELSE "show"
    /\ UNCHANGED <<gnews_articles, newsdata_articles, yahoo_articles, articles, calls, renders, cacheVars, offGeneral>>

\* the script runs again (a widget interaction or a page load), the cache kept
Rerun ==
    /\ pc \in {"done", "crashed"}
    /\ renders < MaxRenders
    /\ renders' = renders + 1
    /\ pc' = "gnews"
    /\ gnews_articles' = <<>>
    /\ newsdata_articles' = <<>>
    /\ yahoo_articles' = <<>>
    /\ articles' = <<>>
    /\ idx' = 1
    /\ shown' = <<>>
    /\ calls' = <<>>
    /\ UNCHANGED <<cacheVars, offGeneral>>

Next == FetchGNews \/ FetchNewsData \/ FetchYahoo \/ Combine \/ Show \/ Rerun

Spec == Init /\ [][Next]_vars

-----------------------------------------------------------------------------
(* Claims about the General Market tab, checked under Spec *)

NO_TITLE == <<"n","o"," ","t","i","t","l","e">>

\* the title filter the specification asks for: non-empty, not the placeholder
ValidTitle(a) == NormTitle(a) # <<>> /\ NormTitle(a) # NO_TITLE

HasValid(l) == \E i \in 1..Len(l) : ValidTitle(l[i])

\* C1: every article handed to summarization and display has a non-empty title
\* that is not "no title" compared case-insensitively.
C1_TitlesValid ==
    \A i \in 1..Len(shown) : shown[i].title # <<>> /\ lower(shown[i].title) # NO_TITLE

ExternallyCalled(f) == \E i \in 1..Len(calls) : calls[i].fn = f /\ calls[i].external

\* C2: once an earlier source of the chain has returned at least one (valid) article, no
\* later source of the chain is invoked (here: performs its external request)
\* during that call.
C2_ShortCircuit ==
    /\ HasValid(gnews_articles) =>
           ~ExternallyCalled("fetch_newsdata") /\ ~ExternallyCalled("fetch_yahoo_rss")
    /\ HasValid(newsdata_articles) => ~ExternallyCalled("fetch_yahoo_rss")

\* C7: the pipeline ends with an empty result only when no source of the chain
\* delivered an article with a valid title.
C7_EmptyOnlyWhenExhausted ==
    (pc = "done" /\ articles = <<>>) =>
        ~HasValid(gnews_articles) /\ ~HasValid(newsdata_articles) /\ ~HasValid(yahoo_articles)

RECURSIVE KeepValid(_)
KeepValid(l) == IF l = <<>> THEN <<>>
                ELSE (IF ValidTitle(Head(l)) THEN <<Head(l)>> ELSE <<>>) \o KeepValid(Tail(l))

\* C8: when the winning source delivers at least 5 valid, mutually non-duplicate
\* articles, exactly 5 articles are output, the first 5 of them in the source's order.
C8_TopFiveAfterDedup ==
    pc = "done" =>
        LET W == CombineByPriority(gnews_articles, newsdata_articles, yahoo_articles)
            D == deduplicate_articles(KeepValid(W))
        IN Len(D) >= GENERAL_SHOWN =>
               /\ Len(shown) = GENERAL_SHOWN
               /\ \A i \in 1..GENERAL_SHOWN : shown[i].title = D[i].title.s

C16_NeverAborts == pc # "crashed"

-----------------------------------------------------------------------------
(* The adapters on their own: any adapter, any provider response, any limit *)

MaxLimit == 9

PipeIdle ==
    /\ pc = "idle"
    /\ gnews_articles = <<>>
    /\ newsdata_articles = <<>>
    /\ yahoo_articles = <<>>
    /\ articles = <<>>
    /\ idx = 1
    /\ shown = <<>>
    /\ calls = <<>>
    /\ renders = 0

CacheIdle == cache = {} /\ now = 0

AdapterCalls ==
    {[adapter |-> "fetch_yahoo_rss", resp |-> r, limit |-> l] :
        r \in FeedResponses(YahooCatalogue), l \in 1..MaxLimit}
    \cup {[adapter |-> "fetch_newsdata", resp |-> r, limit |-> l] :
        r \in ApiResponses(NewsDataCatalogue), l \in 1..MaxLimit}
    \cup {[adapter |-> "fetch_gnews", resp |-> r, limit |-> l] :
        r \in ApiResponses(GNewsCatalogue), l \in 1..MaxLimit}
    \cup {[adapter |-> a, resp |-> r, limit |-> l] :
        a \in {"fetch_newsdata", "fetch_gnews"},
        r \in ShapeResponses(ShapeCatalogue), l \in 1..MaxLimit}
    \cup {[adapter |-> "fetch_yf_company", resp |-> r, limit |-> l] :
        r \in TickerResponses(YFCatalogue), l \in 1..MaxLimit}

\* the call about to be made: which adapter, what the provider will answer, the limit
InitAdapter ==
    /\ call \in AdapterCalls
    /\ result = <<>>
    /\ pc = "call"
    /\ gnews_articles = <<>>
    /\ newsdata_articles = <<>>
    /\ yahoo_articles = <<>>
    /\ articles = <<>>
    /\ idx = 1
    /\ shown = <<>>
    /\ calls = <<>>
    /\ renders = 0
    /\ CacheIdle
    /\ HistIdle
    /\ FlightIdle
    /\ PortfolioIdle
    /\ AppIdle

CallYahoo ==
    /\ pc = "call"
    /\ call.adapter = "fetch_yahoo_rss"
    /\ result' = fetch_yahoo_rss(call.resp, call.limit)
    /\ pc' = "returned"
    /\ UNCHANGED <<gnews_articles, newsdata_articles, yahoo_articles, articles, idx, shown, calls, renders>>
    /\ UNCHANGED <<call, offAdapter>>

CallNewsData ==
    /\ pc = "call"
    /\ call.adapter = "fetch_newsdata"
    /\ result' = fetch_newsdata(call.resp, call.limit)
    /\ pc' = IF fetch_newsdata_outcome(call.resp, call.limit).raised THEN "raised" ELSE "returned"
    /\ UNCHANGED <<gnews_articles, newsdata_articles, yahoo_articles, articles, idx, shown, calls, renders>>
    /\ UNCHANGED <<call, offAdapter>>

CallGNews ==
    /\ pc = "call"
    /\ call.adapter = "fetch_gnews"
    /\ result' = fetch_gnews(call.resp, call.limit)
    /\ pc' = IF fetch_gnews_outcome(call.resp, call.limit).raised THEN "raised" ELSE "returned"
    /\ UNCHANGED <<gnews_articles, newsdata_articles, yahoo_articles, articles, idx, shown, calls, renders>>
    /\ UNCHANGED <<call, offAdapter>>

CallYF ==
    /\ pc = "call"
    /\ call.adapter = "fetch_yf_company"
    /\ result' = fetch_yf_company(call.resp, call.limit)
    /\ pc' = "returned"
    /\ UNCHANGED <<gnews_articles, newsdata_articles, yahoo_articles, articles, idx, shown, calls, renders>>
    /\ UNCHANGED <<call, offAdapter>>

NextAdapter == CallYahoo \/ CallNewsData \/ CallGNews \/ CallYF

SpecAdapter == InitAdapter /\ [][NextAdapter]_vars

\* C10: every adapter returns at most `limit` articles, the i-th built from the
\* provider's i-th record.
C10_AtMostLimitInOrder ==
    pc = "returned" =>
        /\ Len(result) <= call.limit
        /\ call.resp.kind = "ok" =>
               /\ Len(result) <= Len(call.resp.records)
               /\ \A i \in 1..Len(result) :
                      call.resp.records[i].title.k = "str" =>
                          result[i].title = call.resp.records[i].title

\* C10 witness: GNews delivered more records than the limit and exactly `limit`
\* articles came back.
C10_Witness ==
    /\ pc = "returned"
    /\ call.adapter = "fetch_gnews"
    /\ call.resp.kind = "ok"
    /\ Len(call.resp.records) > call.limit
    /\ Len(result) = call.limit
    /\ call.limit > 1

Aggregators == {"fetch_newsdata", "fetch_gnews"}

\* the records the adapter looks at are objects of the expected shape, whatever
\* keys they lack
WellShaped(c) ==
    \A i \in 1..Min(c.limit, Len(c.resp.records)) :
        /\ IsDict(c.resp.records[i])
        /\ c.adapter = "fetch_gnews" => SourceOf(c.resp.records[i]).k = "dict"

\* C11: a call of an aggregator adapter never ends with an exception; a network
\* error, a timeout or a document or record of an unexpected shape gives the
\* empty sequence; records of the expected shape all come back (up to the
\* limit), also when one of them lacks its title, description or source.
C11_ErrorsGiveEmpty ==
    (call.adapter \in Aggregators /\ pc # "call") =>
        /\ pc = "returned"
        /\ call.resp.kind # "ok" => result = <<>>
        /\ (call.resp.kind = "ok" /\ ~WellShaped(call)) => result = <<>>
        /\ (call.resp.kind = "ok" /\ WellShaped(call)) =>
               Len(result) = Min(call.limit, Len(call.resp.records))

\* C11 witness: GNews delivered a record without a title, description and source
\* name beside a complete one, and both came back.
C11_Witness ==
    /\ pc = "returned"
    /\ call.adapter = "fetch_gnews"
    /\ call.resp.kind = "ok"
    /\ Len(result) = 2
    /\ Len(call.resp.records) = 2
    /\ \E i \in 1..2 : call.resp.records[i].title = None /\ result[i].title = None
    /\ \E i \in 1..2 : result[i].title # None

-----------------------------------------------------------------------------
(* deduplicate_articles on its own: any list of up to MaxList articles whose *)
(* titles come from a library with near-duplicates, a pair at ratio 0.9,    *)
(* titles without letters or digits and titles differing in their spacing.  *)

MaxList == 3

DedupTitles == <<
    Str(<<"P","r","o","f","i","t">>),
    Str(<<"p","r","o","f","i","t","s">>),
    Str(<<"P","r","o","f","i","t","s","s">>),
    Str(<<"?","!">>),
    None,
    Str(<<"-"," ","-">>),
    Str(<<"a"," ","b">>),
    Str(<<"a"," "," ","b">>),
    Str(<<"a","b","c","d","e","f","g","h","i","j">>),
    Str(<<"a","b","c","d","e","f","g","h","i","X">>) >>

\* the articles of a list are told apart by their url
DedupInputs ==
    UNION {{[i \in 1..n |-> [title |-> DedupTitles[f[i]], description |-> None,
                             adapter |-> "fetch_gnews", url |-> i]] :
               f \in [1..n -> 1..Len(DedupTitles)]} : n \in 0..MaxList}

InitDedup ==
    /\ call \in {[adapter |-> "deduplicate_articles", articles |-> l] : l \in DedupInputs}
    /\ result = <<>>
    /\ pc = "call"
    /\ gnews_articles = <<>>
    /\ newsdata_articles = <<>>
    /\ yahoo_articles = <<>>
    /\ articles = <<>>
    /\ idx = 1
    /\ shown = <<>>
    /\ calls = <<>>
    /\ renders = 0
    /\ CacheIdle
    /\ HistIdle
    /\ FlightIdle
    /\ PortfolioIdle
    /\ AppIdle

\* news.py:208-224
CallDedup ==
    /\ pc = "call"
    /\ call.adapter = "deduplicate_articles"
    /\ result' = deduplicate_articles(call.articles)
    /\ pc' = "returned"
    /\ UNCHANGED <<gnews_articles, newsdata_articles, yahoo_articles, articles, idx, shown, calls, renders>>
    /\ UNCHANGED <<call, offAdapter>>

NextDedup == CallDedup

SpecDedup == InitDedup /\ [][NextDedup]_vars

\* C12: deduplicating the output of the deduplicator changes nothing.
C12_Idempotent ==
    pc = "returned" => deduplicate_articles(result) = result

\* C12 witness: a list of which one article was dropped as a near-duplicate and
\* two were kept.
C12_Witness ==
    /\ pc = "returned"
    /\ Len(call.articles) = 3
    /\ Len(result) = 2
    /\ \A i \in 1..3 : NormTitle(call.articles[i]) # <<>>

\* the normalized title of the i-th article of the list given
Norm(i) == NormTitle(call.articles[i])

\* articles i < j are near-duplicates: the comparison of news.py:219, the later
\* title against the earlier one
Near(i, j) == i < j /\ Norm(i) # <<>> /\ Norm(j) # <<>> /\ RatioAbove09(Norm(j), Norm(i))

Kept(i) == \E k \in 1..Len(result) : result[k].url = i

Positions == 1..Len(call.articles)

\* a group of near-duplicates: two or more articles, each a near-duplicate of
\* each other one, that no further article could join
Group(G) ==
    /\ Cardinality(G) >= 2
    /\ \A i, j \in G : i < j => Near(i, j)
    /\ \A h \in Positions \ G : \E i \in G : ~(Near(h, i) \/ Near(i, h))

Earliest(G) == CHOOSE i \in G : \A j \in G : i <= j

\* the output is a subsequence of the input, in input order
Subsequence ==
    /\ \A k \in 1..Len(result) :
          result[k].url \in Positions /\ result[k] = call.articles[result[k].url]
    /\ \A k \in 1..(Len(result) - 1) : result[k].url < result[k + 1].url

\* an input whose normalized titles are non-empty and hold no near-duplicate
\* pair comes back unchanged
UnchangedWithoutDuplicates ==
    ((\A i \in Positions : Norm(i) # <<>>) /\ (\A i, j \in Positions : ~Near(i, j)))
        => result = call.articles

\* C13 as stated: the output is a subsequence of the input in input order; an
\* input with non-empty titles and no near-duplicate pair is returned unchanged;
\* of any group of near-duplicates the earliest article is the one kept.
C13_EarliestOfGroupKept ==
    pc = "returned" =>
        /\ Subsequence
        /\ UnchangedWithoutDuplicates
        /\ \A G \in SUBSET Positions :
              Group(G) => \A i \in G : Kept(i) <=> i = Earliest(G)

\* C13 amended: the output is a subsequence of the input in input order; an
\* input with non-empty normalized titles and no near-duplicate pair is returned
\* unchanged; of any articles that are near-duplicates of each other at most one
\* is kept, the earliest of them unless that one was itself dropped as a
\* near-duplicate of an earlier kept article; and an article with a non-empty
\* normalized title is dropped only as a near-duplicate of an earlier kept one.
C13_FirstSeenWins ==
    pc = "returned" =>
        /\ Subsequence
        /\ UnchangedWithoutDuplicates
        /\ \A G \in SUBSET Positions :
              (Cardinality(G) >= 2 /\ \A i, j \in G : i < j => Near(i, j)) =>
                  /\ Cardinality({i \in G : Kept(i)}) <= 1
                  /\ \/ Kept(Earliest(G))
                     \/ \E h \in Positions : Kept(h) /\ Near(h, Earliest(G))
        /\ \A i \in Positions :
              (~Kept(i) /\ Norm(i) # <<>>) => \E h \in Positions : Kept(h) /\ Near(h, i)

\* C13 witness: three articles, the second a near-duplicate of the first and
\* the third of the second but not of the first; the first and the third are kept.
C13_Witness ==
    /\ pc = "returned"
    /\ Len(call.articles) = 3
    /\ Near(1, 2) /\ Near(2, 3) /\ ~Near(1, 3)
    /\ Kept(1) /\ ~Kept(2) /\ Kept(3)

\* the deduplication key as the specification describes it: the title
\* lower-cased, punctuation stripped, whitespace collapsed
CollapsedKey(art) == join(split(Filter(lower(OrText(art.title, <<>>)), PUNCT_KEPT)))

\* keep an article if and only if its key is non-empty and its ratio to the key
\* of every article already kept is not greater than 0.9
RECURSIVE KeepIff(_, _)
KeepIff(arts, kept) ==
    IF arts = <<>> THEN kept
    ELSE LET key == CollapsedKey(Head(arts))
         IN IF /\ key # <<>>
               /\ \A i \in 1..Len(kept) : ~RatioAbove09(key, CollapsedKey(kept[i]))
            THEN KeepIff(Tail(arts), Append(kept, Head(arts)))
            ELSE KeepIff(Tail(arts), kept)

\* C14: an article is kept if and only if its normalized title (lower-cased,
\* punctuation stripped, whitespace collapsed) is non-empty and its ratio to
\* the normalized title of every article already kept is at most 0.9.
C14_KeepIffKey ==
    pc = "returned" => result = KeepIff(call.articles, <<>>)

-----------------------------------------------------------------------------
(* One caller calling one function again and again while time passes: the   *)
(* four decorated functions, and fetch_yf_company, which has no decorator.  *)

Tick == 1
MaxAdvances == 4

CachedFns == {"fetch_yahoo_rss", "fetch_newsdata", "fetch_gnews", "get_portfolio_stocks"}

PORTFOLIO_FETCH == 2

TTLOf(f) == CASE f = "fetch_yahoo_rss" -> TTL_YAHOO
              [] f = "fetch_newsdata" -> TTL_NEWSDATA
              [] f = "fetch_gnews" -> TTL_GNEWS
              [] f = "get_portfolio_stocks" -> TTL_PORTFOLIO

ArgsOf(f) == CASE f = "fetch_yahoo_rss" -> <<GENERAL_FETCH>>
               [] f = "fetch_newsdata" -> <<GENERAL_QUERY, GENERAL_FETCH>>
               [] f = "fetch_gnews" -> <<GENERAL_QUERY, GENERAL_FETCH>>
               [] f = "get_portfolio_stocks" -> <<>>

ProviderAnswers(f) ==
    CASE f = "fetch_yahoo_rss" -> FeedResponses(YahooCatalogue)
      [] f = "fetch_newsdata" -> ApiResponses(SubSeq(NewsDataCatalogue, 1, 2))
      [] f = "fetch_gnews" -> ApiResponses(SubSeq(GNewsCatalogue, 1, 2))
      [] f = "get_portfolio_stocks" -> WatchResponses(WatchCatalogue)

RunBody(f, r) ==
    CASE f = "fetch_yahoo_rss" -> fetch_yahoo_rss(r, GENERAL_FETCH)
      [] f = "fetch_newsdata" -> fetch_newsdata(r, GENERAL_FETCH)
      [] f = "fetch_gnews" -> fetch_gnews(r, GENERAL_FETCH)
      [] f = "get_portfolio_stocks" -> get_portfolio_stocks(r)

InitCache ==
    /\ fn \in CachedFns \cup {"fetch_yf_company"}
    /\ last = NoCall
    /\ fetched = NoFetch
    /\ ticks = 0
    /\ PipeIdle
    /\ CacheIdle
    /\ AdapterIdle
    /\ FlightIdle
    /\ PortfolioIdle
    /\ AppIdle

CallRecord(v, ext) == [some |-> TRUE, at |-> now, external |-> ext, value |-> v, prev |-> fetched]

FetchRecord(v, r) == [some |-> TRUE, at |-> now, value |-> v, failed |-> r.kind = "error"]

\* a call of a decorated function, news.py:37-38, 56-57, 77-78, 100-101
CallDecorated ==
    /\ fn \in CachedFns
    /\ \E r \in ProviderAnswers(fn), ext \in BOOLEAN :
          \E v \in {RunBody(fn, r)} \cup {e.value : e \in cache} :
              /\ CachedCall(fn, ArgsOf(fn), TTLOf(fn), {RunBody(fn, r)}, v, ext)
              /\ last' = CallRecord(v, ext)
              /\ fetched' = IF ext THEN FetchRecord(v, r) ELSE fetched
    /\ UNCHANGED <<fn, ticks, now, offCache>>

\* a call of fetch_yf_company, news.py:121: no decorator, the body runs
CallUndecorated ==
    /\ fn = "fetch_yf_company"
    /\ \E r \in TickerResponses(YFCatalogue) :
          LET v == fetch_yf_company(r, PORTFOLIO_FETCH)
          IN /\ last' = CallRecord(v, TRUE)
             /\ fetched' = FetchRecord(v, r)
    /\ UNCHANGED <<fn, ticks, cacheVars, offCache>>

\* the ttl the clock steps are measured against (30 min for the ticker news)
StepTTL == IF fn \in CachedFns THEN TTLOf(fn) ELSE TTL_PORTFOLIO

\* time passes: a moment, a ttl less a moment, or a whole ttl
Advance ==
    /\ ticks < MaxAdvances
    /\ \E d \in {Tick, StepTTL - Tick, StepTTL} : now' = now + d
    /\ ticks' = ticks + 1
    /\ UNCHANGED <<fn, last, fetched, cache, offCache>>

NextCache == CallDecorated \/ CallUndecorated \/ Advance

SpecCache == InitCache /\ [][NextCache]_vars

\* the last call found an earlier run of the body, made less than ttl seconds before
WithinTTL(ttl) == last.some /\ last.prev.some /\ last.at < last.prev.at + ttl

\* C3: after a run of the body that failed, the next call before the ttl has
\* elapsed runs the body again.
C3_FailureNotCached ==
    (fn \in {"fetch_newsdata", "fetch_gnews", "get_portfolio_stocks"}
        /\ WithinTTL(TTLOf(fn)) /\ last.prev.failed) => last.external

\* C5: a call made before T+TTL returns the value fetched at T without running
\* the body; a call made at or after T+TTL runs the body.
C5_TTL ==
    (fn \in CachedFns /\ last.some /\ last.prev.some) =>
        IF last.at < last.prev.at + TTLOf(fn)
        THEN ~last.external /\ last.value = last.prev.value
        ELSE last.external

\* C5 witness: the RSS feed read exactly 24 h after its fetch, fetched again.
C5_Witness ==
    /\ fn = "fetch_yahoo_rss"
    /\ last.some
    /\ last.prev.some
    /\ last.at = last.prev.at + TTL_YAHOO
    /\ last.external

\* C6: a second call of fetch_yf_company within 30 min of a first makes no
\* external request.
C6_TickerNewsCached ==
    (fn = "fetch_yf_company" /\ WithinTTL(TTL_PORTFOLIO)) => ~last.external

\* the ticker up to its dotted exchange suffix
StripSuffix(t) ==
    IF \E i \in 1..Len(t) : t[i] = "."
    THEN SubSeq(t, 1, (CHOOSE i \in 1..Len(t) : t[i] = "." /\ \A j \in 1..(i - 1) : t[j] # ".") - 1)
    ELSE t

\* first character kept, the others in lower case
Capitalize(s) == [i \in 1..Len(s) |-> IF i = 1 THEN s[i] ELSE LowerChar(s[i])]

LegalTokens == {<<"s","a">>, <<"n","v">>, <<"s","e">>, <<"i","n","c">>, <<"c","o","r","p">>,
                <<"s","c","a">>, <<"p","l","c">>, <<"a","g">>, <<"l","t","d">>, <<"l","l","c">>}

WithoutLegalTokens(words) ==
    SelectSeq(words, LAMBDA w : lower(w) \notin LegalTokens)

\* the name the claim derives from a ticker: "FOO.PA" gives "Foo"
DerivedName(t) == join(WithoutLegalTokens(split(Capitalize(StripSuffix(t)))))

\* the metadata lookup of the ticker failed or delivered no name
LookupGivesNoName(t) ==
    \E i \in 1..Len(WatchCatalogue) :
        /\ WatchCatalogue[i].ticker = t
        /\ \/ WatchCatalogue[i].info.kind = "error"
           \/ /\ WatchCatalogue[i].info.shortName = None
              /\ WatchCatalogue[i].info.longName = None

\* C21: a ticker whose metadata lookup fails still appears in the portfolio
\* list, under the name derived from the ticker: exchange suffix stripped,
\* legal-entity tokens removed, capitalized ("FOO.PA" appears as "Foo").
C21_DerivedNameOnFailure ==
    (fn = "get_portfolio_stocks" /\ last.some) =>
        \A i \in 1..Len(last.value) :
            LookupGivesNoName(last.value[i].ticker) =>
                last.value[i].name = DerivedName(last.value[i].ticker)

\* the tickers of a portfolio list
TickersOf(list) == {list[i].ticker : i \in 1..Len(list)}

\* C22: once a ticker has been resolved, no later resolution of that ticker
\* performs an external metadata lookup, however much time has passed.
C22_ResolvedOnce ==
    (fn = "get_portfolio_stocks" /\ last.some /\ last.prev.some
        /\ TickersOf(last.value) \cap TickersOf(last.prev.value) # {}
        /\ last.at > last.prev.at) => ~last.external

-----------------------------------------------------------------------------
(* Concurrent sessions calling a decorated function.  Each session's script *)
(* runs in its own thread.  st.cache_data looks the key up; on a miss it    *)
(* takes the key's compute lock, looks the key up again, and only then runs *)
(* the function, stores its value and releases the lock.                   *)

NCallers == 3

Callers == 1..NCallers

COMPANY_QUERY == "ASML"
COMPANY_FETCH == 3

FlightKeys == {CacheKey("fetch_gnews", <<GENERAL_QUERY, GENERAL_FETCH>>),
               CacheKey("fetch_gnews", <<COMPANY_QUERY, COMPANY_FETCH>>)}

FlightAnswers == ApiResponses(SubSeq(GNewsCatalogue, 1, 1))

\* a cache without the compute lock
LockFree_never_held(key) == TRUE

\* the key's compute lock is free
LockFree(key) == lock[key] = 0

InitFlight ==
    /\ sess = [c \in Callers |-> [pc |-> "idle"]]
    /\ lock = [k \in FlightKeys |-> 0]
    /\ fetches = [k \in FlightKeys |-> 0]
    /\ PipeIdle
    /\ CacheIdle
    /\ HistIdle
    /\ AdapterIdle
    /\ PortfolioIdle
    /\ AppIdle

Returned(key, v, hit) == [pc |-> "returned", key |-> key, value |-> v, hit |-> hit]

\* the call starts: the first lookup
Lookup(c) ==
    /\ sess[c].pc = "idle"
    /\ \E key \in FlightKeys :
          sess' = [sess EXCEPT ![c] =
                      IF Fresh(key, TTL_GNEWS) THEN Returned(key, CachedValue(key), TRUE)
                      ELSE [pc |-> "waiting", key |-> key]]
    /\ UNCHANGED <<lock, fetches, cacheVars, offFlight>>

\* after a miss: the lock is taken and the key looked up again; the request to
\* the provider goes out if it is still missing
Enter(c) ==
    /\ sess[c].pc = "waiting"
    /\ LockFree(sess[c].key)
    /\ LET key == sess[c].key
       IN IF Fresh(key, TTL_GNEWS)
          THEN /\ sess' = [sess EXCEPT ![c] = Returned(key, CachedValue(key), FALSE)]
               /\ UNCHANGED <<lock, fetches>>
          ELSE /\ sess' = [sess EXCEPT ![c] = [pc |-> "computing", key |-> key]]
               /\ lock' = [lock EXCEPT ![key] = c]
               /\ fetches' = [fetches EXCEPT ![key] = @ + 1]
    /\ UNCHANGED <<cacheVars, offFlight>>

\* the provider has answered: the value is stored, the lock released
Complete(c) ==
    /\ sess[c].pc = "computing"
    /\ \E r \in FlightAnswers :
          LET key == sess[c].key
              v == fetch_gnews(r, key.args[2])
          IN /\ cache' = Store(key, v)
             /\ sess' = [sess EXCEPT ![c] = Returned(key, v, FALSE)]
             /\ lock' = [lock EXCEPT ![key] = 0]
    /\ UNCHANGED <<fetches, now, offFlight>>

NextFlight == \E c \in Callers : Lookup(c) \/ Enter(c) \/ Complete(c)

SpecFlight == InitFlight /\ [][NextFlight]_vars

\* C4: for callers of one key arriving while the cache holds no fresh entry,
\* the function's body runs once and every caller receives the same value.
C4_SingleFlight ==
    \A key \in FlightKeys :
        /\ fetches[key] <= 1
        /\ \A c \in Callers :
               (sess[c].pc = "returned" /\ sess[c].key = key) =>
                   /\ fetches[key] = 1
                   /\ \A d \in Callers :
                          (sess[d].pc = "returned" /\ sess[d].key = key) =>
                              sess[d].value = sess[c].value

\* C4 witness: every caller asked for the same key, every one of them missed at
\* its first lookup, and all have returned a non-empty list.
C4_Witness ==
    \E key \in FlightKeys :
        \A c \in Callers :
            /\ sess[c].pc = "returned"
            /\ sess[c].key = key
            /\ ~sess[c].hit
            /\ sess[c].value # <<>>

-----------------------------------------------------------------------------
(* summarize_article_gemini on its own: one (title, description) pair       *)
(* summarized again and again, whatever the service does with each request. *)

\* the first n letters of the alphabet as n one-letter words
Letters(n) == join([i \in 1..n |-> <<LOWER[i]>>])

SummaryTitles == {
    Str(<<"F","e","d"," ","c","u","t","s">>),
    Str(<<"<","b",">">>),
    Str(<<"O","i","l","?">>) }

SummaryDescriptions == {
    None,
    Str(<<>>),
    Str(<<"<","p",">","f","e","d"," ","c","u","t","s","<","/","p",">">>),
    Str(Letters(FALLBACK_WORDS - 1)),
    Str(Letters(FALLBACK_WORDS)),
    Str(Letters(FALLBACK_WORDS + 1)) }

InitSummary ==
    /\ call \in {[adapter |-> "summarize_article_gemini", title |-> t, description |-> d] :
                    t \in SummaryTitles, d \in SummaryDescriptions}
    /\ result = <<>>
    /\ pc = "call"
    /\ gnews_articles = <<>>
    /\ newsdata_articles = <<>>
    /\ yahoo_articles = <<>>
    /\ articles = <<>>
    /\ idx = 1
    /\ shown = <<>>
    /\ calls = <<>>
    /\ renders = 0
    /\ CacheIdle
    /\ HistIdle
    /\ FlightIdle
    /\ PortfolioIdle
    /\ AppIdle

\* the request a call sends: which of the two prompts, news.py:157-192
Request(c) == [mode |-> IF title_only(strip_html(c.title), strip_html(c.description))
                        THEN "context" ELSE "summary",
               some |-> TRUE, at |-> now]

\* one call of summarize_article_gemini, news.py:142-206: no decorator, so the
\* body runs and the request is made on every call
Summarize ==
    /\ call.adapter = "summarize_article_gemini"
    /\ \E g \in GeminiOutcomes :
          LET o == summarize_article_gemini(call.title, call.description, g)
          IN /\ result' = o.value
             /\ pc' = IF o.raised THEN "raised" ELSE "returned"
             /\ last' = [some |-> TRUE, outcome |-> g, raised |-> o.raised, value |-> o.value,
                         request |-> IF g.kind = "client_error" THEN NoFetch ELSE Request(call),
                         prev |-> IF last.some THEN [last EXCEPT !.prev = NoCall] ELSE NoCall]
    /\ UNCHANGED <<gnews_articles, newsdata_articles, yahoo_articles, articles, idx, shown, calls, renders>>
    /\ UNCHANGED <<call, fn, fetched, ticks, cacheVars, flightVars, appVars, portfolioVars>>

NextSummary == Summarize

SpecSummary == InitSummary /\ [][NextSummary]_vars

\* the generation of the last call failed: it raised, or answered without text
GenerationFailed(c) ==
    \/ c.outcome.kind = "error"
    \/ c.outcome.kind = "text" /\ strip(OrText(c.outcome.text, <<>>)) = <<>>

\* the text the fallback is to give: the first 25 words of the description, of
\* the title when the description is empty, an ellipsis when words were cut
\* off, and a full stop where the text does not end a sentence already
FallbackTexts ==
    LET clean_desc == strip_html(call.description)
        words == split(IF clean_desc # <<>> THEN clean_desc ELSE strip_html(call.title))
        body == join(Take(words, FALLBACK_WORDS))
    IN IF Len(words) > FALLBACK_WORDS THEN {body \o <<".", ".", ".">>}
       ELSE IF EndsSentence(body) THEN {body}
       ELSE {body \o <<".">>}

\* C15: when the generation call fails (timeout, provider error or an empty
\* response) and the title is not empty, summarize returns a non-empty text
\* that ends in ".", "!" or "?" and consists of the first 25 words of the
\* description (of the title when the description is empty), followed by an
\* ellipsis exactly when words were cut off.
C15_Fallback ==
    (last.some /\ GenerationFailed(last) /\ strip_html(call.title) # <<>>) =>
        /\ pc = "returned"
        /\ result # <<>>
        /\ EndsSentence(result)
        /\ result \in FallbackTexts

\* C17: summaries are cached per (title, description): after a call whose
\* generation succeeded, a later call with the same pair returns the same text
\* without a new generation call; after a failed generation the next call with
\* the same pair attempts generation again.
C17_SummariesCached ==
    (last.some /\ last.prev.some) =>
        /\ (last.prev.outcome.kind = "text" /\ ~GenerationFailed(last.prev)) =>
               ~last.request.some /\ last.value = last.prev.value
        /\ GenerationFailed(last.prev) =>
               last.request.some \/ last.outcome.kind = "client_error"

-----------------------------------------------------------------------------
(* render_news_section, Portfolio tab, news.py:277-343 *)

MaxStocks == 6

PORTFOLIO_COMPANIES == 5
PORTFOLIO_TARGET == 5

\* the i-th row of the watch list and what the metadata lookup of its ticker
\* answers: a short name, a failure, or a long name only
WatchRow(i) ==
    [ticker |-> <<UPPER[i]>>,
     info |-> IF i % 2 = 1
              THEN [kind |-> "ok", shortName |-> Str(<<UPPER[i], " ", "N", "V">>), longName |-> None]
              ELSE IF i % 4 = 2 THEN [kind |-> "error"]
              ELSE [kind |-> "ok", shortName |-> None, longName |-> Str(<<UPPER[i], " ", "S", "A">>)]]

\* the watch-list query fails or delivers the first n rows
WatchAnswers == {[kind |-> "error"]}
                \cup {[kind |-> "ok", rows |-> [i \in 1..n |-> WatchRow(i)]] : n \in 0..MaxStocks}

StockLists == {get_portfolio_stocks(r) : r \in WatchAnswers}

Prefixes(cat) == {Take(cat, n) : n \in 0..Len(cat)}

\* what the providers answer to the query for one company
CompanyGNewsAnswers ==
    {[kind |-> "error"], [kind |-> "nokey"]}
    \cup {[kind |-> "ok", records |-> l] : l \in Prefixes(SubSeq(GNewsCatalogue, 6, 8))}

CompanyNewsDataAnswers ==
    {[kind |-> "error"], [kind |-> "nokey"]}
    \cup {[kind |-> "ok", records |-> l] : l \in Prefixes(SubSeq(NewsDataCatalogue, 1, 1))}

CompanyYFAnswers ==
    {[kind |-> "error"], [kind |-> "none"]}
    \cup {[kind |-> "ok", records |-> l] : l \in Prefixes(SubSeq(YFCatalogue, 1, 2))}

\* news.py:285: the first option, or a company's name
Headlines == [k |-> "headlines"]
Company(name) == [k |-> "company", name |-> name]

\* news.py:284
Options(st) == {Headlines} \cup {Company(st[i].name) : i \in 1..Len(st)}

InitPortfolio ==
    /\ pc = "portfolio"
    /\ gnews_articles = <<>>
    /\ newsdata_articles = <<>>
    /\ yahoo_articles = <<>>
    /\ articles = <<>>
    /\ idx = 1
    /\ shown = <<>>
    /\ calls = <<>>
    /\ renders = 1
    /\ cache = {}
    /\ now = 0
    /\ HistIdle
    /\ AdapterIdle
    /\ FlightIdle
    /\ PortfolioIdle
    /\ AppIdle

\* news.py:279-282
PortfolioStocks ==
    /\ pc = "portfolio"
    /\ \E v \in StockLists, ext \in BOOLEAN :
          /\ CachedCall("get_portfolio_stocks", <<>>, TTL_PORTFOLIO, StockLists, v, ext)
          /\ stocks' = v
          /\ calls' = Append(calls, [fn |-> "get_portfolio_stocks", external |-> ext, company |-> 0, count |-> Len(v)])
          /\ pc' = IF v = <<>> THEN "done" ELSE "select"
    /\ UNCHANGED <<gnews_articles, newsdata_articles, yahoo_articles, articles, idx, shown, renders, now>>
    /\ UNCHANGED <<selected, company, news, histVars, adapterVars, flightVars, appVars>>

\* news.py:307: next(s["ticker"] for s in stocks if s["name"] == selected) takes
\* the first company of that name
FirstNamed(st, name) == CHOOSE i \in 1..Len(st) : st[i].name = name /\ \A j \in 1..(i - 1) : st[j].name # name

\* news.py:284-290: the select box and the start of the collection
Select ==
    /\ pc = "select"
    /\ \E o \in Options(stocks) :
          /\ selected' = o
          /\ company' = IF o = Headlines THEN 1 ELSE FirstNamed(stocks, o.name)
    /\ articles' = <<>>
    /\ pc' = "chain_gnews"
    /\ UNCHANGED <<gnews_articles, newsdata_articles, yahoo_articles, idx, shown, calls, renders, cacheVars>>
    /\ UNCHANGED <<stocks, news, histVars, adapterVars, flightVars, appVars>>

\* the query and the limit of the chain, news.py:293-295 and 305-307
ChainName == IF selected = Headlines THEN stocks[company].name ELSE selected.name
ChainLimit == IF selected = Headlines THEN PORTFOLIO_FETCH ELSE COMPANY_FETCH

SourceCall(f, ext, v) == [fn |-> f, external |-> ext, company |-> company, count |-> Len(v)]

\* news.py:293, 305
ChainGNews ==
    /\ pc = "chain_gnews"
    /\ LET Results == {fetch_gnews(r, ChainLimit) : r \in CompanyGNewsAnswers}
       IN \E v \in Results, ext \in BOOLEAN :
             /\ CachedCall("fetch_gnews", <<ChainName, ChainLimit>>, TTL_GNEWS, Results, v, ext)
             /\ news' = v
             /\ calls' = Append(calls, SourceCall("fetch_gnews", ext, v))
             /\ pc' = IF v # <<>> THEN "collect" ELSE "chain_newsdata"
    /\ UNCHANGED <<gnews_articles, newsdata_articles, yahoo_articles, articles, idx, shown, renders, now>>
    /\ UNCHANGED <<stocks, selected, company, histVars, adapterVars, flightVars, appVars>>

\* news.py:294, 306: reached only when fetch_gnews returned an empty list
ChainNewsData ==
    /\ pc = "chain_newsdata"
    /\ LET Results == {fetch_newsdata(r, ChainLimit) : r \in CompanyNewsDataAnswers}
       IN \E v \in Results, ext \in BOOLEAN :
             /\ CachedCall("fetch_newsdata", <<ChainName, ChainLimit>>, TTL_NEWSDATA, Results, v, ext)
             /\ news' = v
             /\ calls' = Append(calls, SourceCall("fetch_newsdata", ext, v))
             /\ pc' = IF v # <<>> THEN "collect" ELSE "chain_yf"
    /\ UNCHANGED <<gnews_articles, newsdata_articles, yahoo_articles, articles, idx, shown, renders, now>>
    /\ UNCHANGED <<stocks, selected, company, histVars, adapterVars, flightVars, appVars>>

\* news.py:295, 307: reached only when both aggregators returned an empty list;
\* no decorator, the body runs
ChainYF ==
    /\ pc = "chain_yf"
    /\ \E r \in CompanyYFAnswers :
          LET v == fetch_yf_company(r, ChainLimit)
          IN /\ news' = v
             /\ calls' = Append(calls, SourceCall("fetch_yf_company", TRUE, v))
    /\ pc' = "collect"
    /\ UNCHANGED <<gnews_articles, newsdata_articles, yahoo_articles, articles, idx, shown, renders, cacheVars>>
    /\ UNCHANGED <<stocks, selected, company, histVars, adapterVars, flightVars, appVars>>

\* the articles tagged with the ticker instead of the name
Tagged_ticker(l, s) ==
    [i \in 1..Len(l) |-> [title |-> l[i].title, description |-> l[i].description,
                          adapter |-> l[i].adapter, company |-> s.ticker]]

\* news.py:297-298: n["company"] = s["name"]
Tagged(l, s) ==
    [i \in 1..Len(l) |-> [title |-> l[i].title, description |-> l[i].description,
                          adapter |-> l[i].adapter, company |-> s.name]]

\* the loop going on to the next company at once
AfterCompany_no_sleep(log, k) == log

\* news.py:302: time.sleep(0.5)
AfterCompany(log, k) == Append(log, [fn |-> "time.sleep", external |-> FALSE, company |-> k, count |-> 0])

\* news.py:297-302, the rest of a pass of "for s in stocks[:5]"
CollectHeadlines ==
    /\ pc = "collect"
    /\ selected = Headlines
    /\ articles' = articles \o Tagged(news, stocks[company])
    /\ IF Len(articles') >= PORTFOLIO_TARGET
       THEN /\ pc' = "dedup"
            /\ UNCHANGED <<calls, company>>
       ELSE /\ calls' = AfterCompany(calls, company)
            /\ IF company + 1 > Min(PORTFOLIO_COMPANIES, Len(stocks))
               THEN pc' = "dedup" /\ UNCHANGED company
               ELSE pc' = "chain_gnews" /\ company' = company + 1
    /\ UNCHANGED <<gnews_articles, newsdata_articles, yahoo_articles, idx, shown, renders, cacheVars>>
    /\ UNCHANGED <<stocks, selected, news, histVars, adapterVars, flightVars, appVars>>

\* news.py:309-310: a["company"] = selected
CollectCompany ==
    /\ pc = "collect"
    /\ selected # Headlines
    /\ articles' = Tagged(news, [name |-> selected.name, ticker |-> stocks[company].ticker])
    /\ pc' = "dedup"
    /\ UNCHANGED <<gnews_articles, newsdata_articles, yahoo_articles, idx, shown, calls, renders, cacheVars>>
    /\ UNCHANGED <<portfolioVars, histVars, adapterVars, flightVars, appVars>>

\* news.py:312-316
PortfolioDedup ==
    /\ pc = "dedup"
    /\ articles' = deduplicate_articles(articles)
    /\ calls' = Append(calls, [fn |-> "deduplicate_articles", external |-> FALSE,
                               company |-> 0, count |-> Len(articles)])
    /\ idx' = 1
    /\ pc' = AfterArticles(articles')
    /\ UNCHANGED <<gnews_articles, newsdata_articles, yahoo_articles, shown, renders, cacheVars>>
    /\ UNCHANGED <<portfolioVars, histVars, adapterVars, flightVars, appVars>>

\* news.py:318-343 is the loop of news.py:249-274 with the company tag added to
\* the heading: Show
NextPortfolio ==
    \/ PortfolioStocks \/ Select \/ ChainGNews \/ ChainNewsData \/ ChainYF
    \/ CollectHeadlines \/ CollectCompany \/ PortfolioDedup \/ Show

SpecPortfolio == InitPortfolio /\ [][NextPortfolio]_vars

-----------------------------------------------------------------------------
(* Claims about the Portfolio tab, checked under SpecPortfolio *)

SourceFns == {"fetch_gnews", "fetch_newsdata", "fetch_yf_company"}

\* the positions of the call log holding a source call made for company k
SourceCallsFor(k) == {i \in 1..Len(calls) : calls[i].fn \in SourceFns /\ calls[i].company = k}

Visited == {calls[i].company : i \in {j \in 1..Len(calls) : calls[j].fn \in SourceFns}}

\* the number of articles the chain of company k returned
ProducedBy(k) ==
    LET S == {i \in SourceCallsFor(k) : calls[i].count > 0}
    IN IF S = {} THEN 0 ELSE calls[CHOOSE i \in S : TRUE].count

RECURSIVE ProducedUpTo(_)
ProducedUpTo(k) == IF k = 0 THEN 0 ELSE ProducedBy(k) + ProducedUpTo(k - 1)

\* the company names the collected articles are to carry, from company k on
RECURSIVE ExpectedTags(_)
ExpectedTags(k) ==
    IF k > company THEN <<>>
    ELSE [j \in 1..ProducedBy(k) |-> stocks[k].name] \o ExpectedTags(k + 1)

DedupCalls == {i \in 1..Len(calls) : calls[i].fn = "deduplicate_articles"}

\* C18: the deduplicator is applied exactly once to the combined result set and
\* before any summarization; when the run has ended the summarizer has been
\* invoked exactly once per article of the deduplicated output, in output order.
C18_DedupOnceThenSummarizeEach ==
    /\ shown # <<>> => Cardinality(DedupCalls) = 1
    /\ (pc \in {"done", "crashed"} /\ selected # None) =>
           /\ Cardinality(DedupCalls) = 1
           /\ shown = [i \in 1..Len(articles) |-> Displayed(articles[i])]

\* C19: with "Most important headlines" the companies are visited in list
\* order, at most the first 5 of them; each chain runs at most once per source
\* and gives at most 2 articles; every collected article carries the name of
\* the company whose chain returned it; no company is consulted once 5 articles
\* are collected.  With a company selected the chain runs once and every
\* article carries that company's name.
C19_HeadlinesLoop ==
    /\ selected = Headlines =>
          /\ company \in 1..Min(PORTFOLIO_COMPANIES, Len(stocks))
          /\ Visited \in {1..company, 1..(company - 1)}
          /\ \A i, j \in 1..Len(calls) :
                (i < j /\ calls[i].fn \in SourceFns /\ calls[j].fn \in SourceFns)
                    => calls[i].company <= calls[j].company
          /\ \A k \in Visited :
                /\ Cardinality({i \in SourceCallsFor(k) : calls[i].count > 0}) <= 1
                /\ \A f \in SourceFns : Cardinality({i \in SourceCallsFor(k) : calls[i].fn = f}) <= 1
                /\ ProducedBy(k) <= PORTFOLIO_FETCH
                /\ ProducedUpTo(k - 1) < PORTFOLIO_TARGET
          /\ pc = "dedup" => [i \in 1..Len(articles) |-> articles[i].company] = ExpectedTags(1)
    /\ (selected # Headlines /\ selected # None) =>
          /\ \A f \in SourceFns :
                Cardinality({i \in 1..Len(calls) : calls[i].fn = f}) <= 1
          /\ \A i \in 1..Len(calls) : calls[i].fn \in SourceFns => calls[i].company = company
          /\ pc = "dedup" =>
                /\ Len(articles) = ProducedBy(company)
                /\ \A i \in 1..Len(articles) : articles[i].company = selected.name

\* C19 witness: six companies on the list; the first gave 2 articles, the
\* second 2, the third at least 1, and the collection stopped there.
C19_Witness ==
    /\ selected = Headlines
    /\ pc = "dedup"
    /\ Len(stocks) = MaxStocks
    /\ company = 3
    /\ Len(articles) >= PORTFOLIO_TARGET
    /\ articles[1].company = stocks[1].name
    /\ articles[Len(articles)].company = stocks[3].name

\* C20: in the "Most important headlines" loop a delay step lies between the
\* last source call made for one company and the first made for the next.
C20_DelayBetweenCompanies ==
    \A i, j \in 1..Len(calls) :
        (/\ i < j
         /\ calls[i].fn \in SourceFns
         /\ calls[j].fn \in SourceFns
         /\ calls[i].company # calls[j].company)
            => \E m \in (i + 1)..(j - 1) : calls[m].fn = "time.sleep"

\* C20 witness: external requests were made for two companies one after the
\* other, the delay step between them.
C20_Witness ==
    /\ selected = Headlines
    /\ \E i \in 1..Len(calls) :
          /\ i + 2 <= Len(calls)
          /\ calls[i].fn \in SourceFns /\ calls[i].external /\ calls[i].company = 1
          /\ calls[i + 1].fn = "time.sleep"
          /\ calls[i + 2].fn = "fetch_gnews" /\ calls[i + 2].external /\ calls[i + 2].company = 2

-----------------------------------------------------------------------------
(* render_news_section, news.py:226-345: the General Market tab and the     *)
(* Portfolio tab.  The tabs share the cache only, under different keys (the *)
(* general query and the company names), so each tab is followed from the   *)
(* state of a fresh process.                                                *)

InitNews == Init \/ InitPortfolio

\* news.py:233-274
GeneralTab == PortfolioIdle /\ Next

\* news.py:277-343
PortfolioTab == NextPortfolio

NextNews == GeneralTab \/ PortfolioTab

SpecNews == InitNews /\ [][NextNews]_vars

\* the General Market tab has consulted its three sources in this run
GeneralFetched == PortfolioIdle /\ pc \in {"combine", "show", "done", "crashed"} /\ Len(calls) = 3

\* every source of the general chain came back empty
GeneralExhausted ==
    GeneralFetched /\ gnews_articles = <<>> /\ newsdata_articles = <<>> /\ yahoo_articles = <<>>

\* the Portfolio tab has finished collecting and every chain it ran came back empty
PortfolioExhausted ==
    /\ selected # None
    /\ pc \in {"dedup", "show", "done", "crashed"}
    /\ \A i \in 1..Len(calls) : calls[i].fn \in SourceFns => calls[i].count = 0

C23_WitnessGeneral == GeneralExhausted /\ pc = "done"
C23_WitnessCompany == PortfolioExhausted /\ selected # Headlines /\ pc = "done"

\* the largest number of articles the headlines mode can collect: the loop goes
\* on while fewer than the target are collected, and a pass adds at most a chain's limit
HeadlinesMost == (PORTFOLIO_TARGET - 1) + PORTFOLIO_FETCH

\* C30: in "Most important headlines" mode at most 6 articles are collected and
\* put out (at most 2 per company, at most 5 companies, no further company once
\* 5 are collected), and the General Market tab puts out at most 5, however
\* many articles the providers deliver.
C30_OutputBounds ==
    /\ (GeneralFetched /\ pc # "combine") =>
           /\ Len(articles) <= 5
           /\ Len(shown) <= 5
    /\ selected = Headlines =>
           /\ HeadlinesMost = 6
           /\ Len(articles) <= 6
           /\ Len(shown) <= 6
           /\ \A i \in 1..Len(calls) : calls[i].fn \in SourceFns => calls[i].count <= 2
           /\ Visited \subseteq 1..5
           /\ \A k \in Visited : k > 1 => ProducedUpTo(k - 1) < 5

\* C30 witness: the headlines mode collected six articles, four from the first
\* two companies and two from the third, each provider holding more than two.
C30_Witness ==
    /\ selected = Headlines
    /\ pc = "dedup"
    /\ Len(articles) = 6
    /\ Cardinality(Visited) = 3

\* C30 witness of the General Market tab: five articles shown of the eight GNews delivered
C30_WitnessGeneral == GeneralFetched /\ pc = "done" /\ Len(shown) = 5 /\ Len(gnews_articles) > 5

-----------------------------------------------------------------------------
(* The announcement feed, db.py:28-68.  Every browser session runs its      *)
(* script in a thread of its own; insert_message is three requests to the   *)
(* database, and requests of different sessions interleave.                  *)

NSessions == 2
MaxPosts == 8

Sessions == 1..NSessions

\* db.py:47
FEED_KEPT == 3

Idle == [pc |-> "idle"]

SetMin(S) == CHOOSE x \in S : \A y \in S : x <= y

NewsIdle == PipeIdle /\ CacheIdle /\ HistIdle /\ AdapterIdle /\ FlightIdle /\ PortfolioIdle

\* the feed holds at most three messages, nobody is posting
InitFeed ==
    /\ \E n \in 0..FEED_KEPT : feed = 1..n /\ posted = n
    /\ thread = [s \in Sessions |-> Idle]
    /\ members = <<>>
    /\ session_state = <<>>
    /\ cookies = <<>>
    /\ history = <<>>
    /\ NewsIdle

\* db.py:36-40, called from announcements.py:26-28: the row is inserted
InsertRow(s) ==
    /\ thread[s].pc = "idle"
    /\ posted < MaxPosts
    /\ feed' = feed \cup {posted + 1}
    /\ posted' = posted + 1
    /\ thread' = [thread EXCEPT ![s] = [pc |-> "select"]]
    /\ UNCHANGED <<members, session_state, cookies, history, newsVars>>

\* db.py:43-49: all ids ordered by created_at; with more than three rows the
\* oldest of them is to be deleted
SelectIds(s) ==
    /\ thread[s].pc = "select"
    /\ thread' = [thread EXCEPT ![s] =
                     IF Cardinality(feed) > FEED_KEPT
                     THEN [pc |-> "delete", oldest_id |-> SetMin(feed)]
                     ELSE Idle]
    /\ UNCHANGED <<feed, posted, members, session_state, cookies, history, newsVars>>

\* db.py:49, 61-68: delete().eq("id", oldest_id)
DeleteOldest(s) ==
    /\ thread[s].pc = "delete"
    /\ feed' = feed \ {thread[s].oldest_id}
    /\ thread' = [thread EXCEPT ![s] = Idle]
    /\ UNCHANGED <<posted, members, session_state, cookies, history, newsVars>>

NextFeed == \E s \in Sessions : InsertRow(s) \/ SelectIds(s) \/ DeleteOldest(s)

SpecFeed == InitFeed /\ [][NextFeed]_vars

\* the ids of the three messages created last
LatestThree == {i \in 1..posted : i > posted - 3}

\* C24: whenever no insert_message is under way, the feed holds at most three
\* messages, the three created last, also after calls of different sessions
\* interleaved their insert, count and delete requests.
C24_KeepsLatestThree ==
    (\A s \in Sessions : thread[s].pc = "idle") =>
        /\ Cardinality(feed) <= 3
        /\ feed = LatestThree

-----------------------------------------------------------------------------
(* The table "authentication", db.py:73-251.  A row is a record; the table  *)
(* is the sequence of its rows.  db.py builds a Member from the first row   *)
(* a query delivers (with is_board, as cookies.py:149 reads it); the model  *)
(* hands the row itself to the caller.                                     *)

\* backend.py:88-104: the salted PBKDF2 hash of a password
set_password(plain_password) == [pbkdf2 |-> plain_password]

\* backend.py:66-85
check_password(member, plain_password) == member.password = set_password(plain_password)

\* the rows a filter eq(column, value) selects
RowsWhere(tbl, col, value) == {i \in 1..Len(tbl) : tbl[i][col] = value}

\* db.py:92-94, 124-126: record = data[0]
FirstRow(tbl, rows) == IF rows = {} THEN None ELSE tbl[SetMin(rows)]

\* db.py:73-103
get_member_by_username(tbl, username) == FirstRow(tbl, RowsWhere(tbl, "username", username))

\* db.py:105-135
get_member_by_full_name(tbl, full_name) == FirstRow(tbl, RowsWhere(tbl, "name", full_name))

\* update({col: value}).eq("username", username): every row of that username
UpdateWhere(tbl, username, col, value) ==
    [i \in 1..Len(tbl) |-> IF tbl[i].username = username
                           THEN [tbl[i] EXCEPT ![col] = value]
                           ELSE tbl[i]]

\* db.py:138-152
set_reset_code(tbl, username, code) == UpdateWhere(tbl, username, "reset_code", code)

\* db.py:155-169
update_password(tbl, username, new_hash) == UpdateWhere(tbl, username, "password", new_hash)

\* db.py:174-186
update_username(tbl, old_username, new_username) == UpdateWhere(tbl, old_username, "username", new_username)

\* db.py:189-201
update_email(tbl, username, new_email) == UpdateWhere(tbl, username, "email", new_email)

\* db.py:232-251, the row without is_board, which no handler modelled here reads
create_member(tbl, username, name, email, is_admin, password_hash, reset_code) ==
    Append(tbl, [username |-> username, name |-> name, email |-> email, is_admin |-> is_admin,
                 password |-> password_hash, reset_code |-> reset_code])

\* the members the table holds at the start: an admin and a member
Ann == [username |-> "ann", name |-> "Ann A", email |-> "ann@x", is_admin |-> TRUE,
        password |-> set_password(1), reset_code |-> 1]
Bob == [username |-> "bob", name |-> "Bob B", email |-> "bob@x", is_admin |-> FALSE,
        password |-> set_password(2), reset_code |-> 2]

Members0 == <<Ann, Bob>>

SetMax(S) == CHOOSE x \in S : \A y \in S : x >= y

\* backend.py:13-19: 24 random bytes, a code no row holds and none held before
generate_reset_code(tbl) == 1 + SetMax({0} \cup {tbl[i].reset_code : i \in 1..Len(tbl)})

-----------------------------------------------------------------------------
(* login_screen, ui/auth.py:13-160: the login form and the four steps of    *)
(* the password reset, in concurrent browser sessions.  A press of a button *)
(* runs the script of that session once; the requests to the database of    *)
(* different sessions interleave.                                           *)

MaxEvents == 2

\* what the users type: user names, full names, passwords, codes
TypedUsernames == {"ann", "bob", "eve"}
TypedNames == {"Ann A", "Bob B", "Eve E"}
TypedPasswords == {0, 1, 2}
TypedCodes == 0..(MaxEvents + 2)

\* ui/auth.py:21-29
FreshSession == [authenticated |-> FALSE, reset_step |-> "login", reset_username |-> None,
                 username |-> None]

\* get_member_by_username(st.session_state.reset_username)
MemberOf(tbl, name) == IF name = None THEN None ELSE get_member_by_username(tbl, name.s)

\* a check that accepts whatever is typed
CodeMatches_any(member, code_input) == TRUE

\* ui/auth.py:110: member.reset_code == code_input
CodeMatches(member, code_input) == member.reset_code = code_input

InitReset ==
    /\ members = Members0
    /\ session_state = [s \in Sessions |-> FreshSession]
    /\ thread = [s \in Sessions |-> Idle]
    /\ history = <<>>
    /\ feed = {}
    /\ posted = 0
    /\ cookies = <<>>
    /\ NewsIdle

\* the script of session s is not running and shows the login screen
AtStep(s, step) ==
    /\ thread[s] = Idle
    /\ ~session_state[s].authenticated
    /\ session_state[s].reset_step = step

\* ui/auth.py:38-49
Login(s) ==
    /\ AtStep(s, "login")
    /\ \E username \in TypedUsernames, password \in TypedPasswords :
          LET member == get_member_by_username(members, username)
          IN IF member # None /\ check_password(member, password)
             THEN session_state' = [session_state EXCEPT ![s].authenticated = TRUE,
                                                         ![s].username = Str(member.username)]
             ELSE UNCHANGED session_state
    /\ UNCHANGED <<feed, posted, members, thread, cookies, history, newsVars>>

\* ui/auth.py:50-53
ForgotPassword(s) ==
    /\ AtStep(s, "login")
    /\ session_state' = [session_state EXCEPT ![s].reset_step = "enter_name"]
    /\ UNCHANGED <<feed, posted, members, thread, cookies, history, newsVars>>

\* ui/auth.py:59-69
SubmitName(s) ==
    /\ AtStep(s, "enter_name")
    /\ \E full_name \in TypedNames :
          LET member == get_member_by_full_name(members, full_name)
          IN IF member # None
             THEN session_state' = [session_state EXCEPT ![s].reset_username = Str(member.username),
                                                         ![s].reset_step = "send_code"]
             ELSE UNCHANGED session_state
    /\ UNCHANGED <<feed, posted, members, thread, cookies, history, newsVars>>

\* ui/auth.py:80-91: the code is mailed, or the user is told to ask an admin
SendResetEmail(s) ==
    /\ AtStep(s, "send_code")
    /\ session_state' = [session_state EXCEPT ![s].reset_step = "enter_code"]
    /\ UNCHANGED <<feed, posted, members, thread, cookies, history, newsVars>>

ResetSteps == {"enter_name", "send_code", "enter_code", "set_password"}

\* ui/auth.py:71-75, 93-97, 121-125, 152-156
BackToLogin(s) ==
    /\ \E step \in ResetSteps : AtStep(s, step)
    /\ session_state' = [session_state EXCEPT ![s].reset_step = "login",
                                              ![s].reset_username = None]
    /\ UNCHANGED <<feed, posted, members, thread, cookies, history, newsVars>>

\* ui/auth.py:107-111 and 117-119: the row is read and compared with the code
\* typed; on a match the step is set and the handler goes on
SubmitCode(s) ==
    /\ AtStep(s, "enter_code")
    /\ Len(history) < MaxEvents
    /\ \E code_input \in TypedCodes :
          LET member == MemberOf(members, session_state[s].reset_username)
              ok == member # None /\ CodeMatches(member, code_input)
          IN /\ session_state' = IF ok
                                 THEN [session_state EXCEPT ![s].reset_step = "set_password"]
                                 ELSE session_state
             /\ thread' = IF ok THEN [thread EXCEPT ![s] = [pc |-> "set_reset_code"]] ELSE thread
             /\ history' = IF ok
                           THEN Append(history, [ev |-> "accepted", session |-> s,
                                                 username |-> session_state[s].reset_username.s,
                                                 code |-> code_input])
                           ELSE history
    /\ UNCHANGED <<feed, posted, members, cookies, newsVars>>

\* ui/auth.py:113-116: a new code is generated and stored, then st.rerun()
ReplaceCode(s) ==
    /\ thread[s] = [pc |-> "set_reset_code"]
    /\ members' = set_reset_code(members, session_state[s].reset_username.s,
                                 generate_reset_code(members))
    /\ thread' = [thread EXCEPT ![s] = Idle]
    /\ UNCHANGED <<feed, posted, session_state, cookies, history, newsVars>>

\* ui/auth.py:132-150
SetPassword(s) ==
    /\ AtStep(s, "set_password")
    /\ Len(history) < MaxEvents
    /\ \E new_password \in TypedPasswords, confirm_password \in TypedPasswords :
          LET member == MemberOf(members, session_state[s].reset_username)
          IN IF new_password # confirm_password \/ new_password = 0 \/ member = None
             THEN UNCHANGED <<members, session_state, history>>
             ELSE /\ members' = update_password(members, session_state[s].reset_username.s,
                                                set_password(new_password))
                  /\ session_state' = [session_state EXCEPT ![s].reset_step = "login",
                                                            ![s].reset_username = None]
                  /\ history' = Append(history, [ev |-> "password", session |-> s,
                                                 username |-> session_state[s].reset_username.s])
    /\ UNCHANGED <<feed, posted, thread, cookies, newsVars>>

NextReset ==
    \E s \in Sessions :
        \/ Login(s) \/ ForgotPassword(s) \/ SubmitName(s) \/ SendResetEmail(s)
        \/ BackToLogin(s) \/ SubmitCode(s) \/ ReplaceCode(s) \/ SetPassword(s)

SpecReset == InitReset /\ [][NextReset]_vars

\* the positions of the accepted submissions of a code
Accepted == {i \in 1..Len(history) : history[i].ev = "accepted"}

LastAcceptedFor(s) ==
    LET A == {i \in Accepted : history[i].session = s}
    IN IF A = {} THEN None ELSE Str(history[SetMax(A)].username)

\* one step of the login screen keeps the order of the reset flow
FlowStep ==
    \A s \in Sessions :
        /\ (session_state'[s].reset_step = "set_password" /\ session_state[s].reset_step # "set_password") =>
               /\ session_state[s].reset_step = "enter_code"
               /\ Len(history') = Len(history) + 1
               /\ history'[Len(history')].ev = "accepted"
               /\ history'[Len(history')].session = s
               /\ Str(history'[Len(history')].username) = session_state[s].reset_username
               /\ MemberOf(members, session_state[s].reset_username) # None
               /\ history'[Len(history')].code = MemberOf(members, session_state[s].reset_username).reset_code
        /\ (\E i \in 1..Len(members) : members'[i].password # members[i].password /\ thread[s] = Idle
                                       /\ session_state'[s] # session_state[s]) =>
               /\ session_state[s].reset_step = "set_password"
               /\ LastAcceptedFor(s) = session_state[s].reset_username
               /\ \A i \in 1..Len(members) :
                      members'[i].password # members[i].password =>
                          Str(members[i].username) = LastAcceptedFor(s)
        /\ (session_state'[s].reset_step = "login" /\ session_state[s].reset_step # "login") =>
               session_state'[s].reset_username = None
        /\ (session_state'[s].authenticated /\ ~session_state[s].authenticated) =>
               session_state[s].reset_step = "login" /\ session_state[s].reset_username = None

\* "Back to login" is offered at every step of the reset
BackOffered ==
    \A s \in Sessions : \A step \in ResetSteps : AtStep(s, step) => ENABLED BackToLogin(s)

-----------------------------------------------------------------------------
(* Persistent login, cookies.py.  The module states how it is to be used    *)
(* (cookies.py:9-14): restore_session_from_cookie before the login form is  *)
(* shown, write_login_cookie after a successful login, clear_auth_cookie on *)
(* logout.  Each browser has one session and one auth_token cookie.         *)

\* cookies.py:28
TOKEN_DURATION_HOURS == 24

HOUR == 3600

MaxDays == 2

\* cookies.py:48-61: the signed token with its subject and expiry
encode_token(username, expires_at) == [sub |-> username, exp |-> expires_at]

\* cookies.py:63-82: the subject of a token that has not expired, else None
decode_token(token) == IF now < token.exp THEN Str(token.sub) ELSE None

InitCookie ==
    /\ members = Members0
    /\ session_state = [s \in Sessions |-> FreshSession]
    /\ thread = [s \in Sessions |-> Idle]
    /\ cookies = [s \in Sessions |-> None]
    /\ history = [s \in Sessions |-> "none"]
    /\ feed = {}
    /\ posted = 0
    /\ NewsIdle

\* ui/auth.py:38-49 with cookies.py:12, 86-100: the login form; after a
\* successful login the token is written
LoginRemembered(s) ==
    /\ AtStep(s, "login")
    /\ \E username \in TypedUsernames, password \in TypedPasswords :
          LET member == get_member_by_username(members, username)
          IN IF member # None /\ check_password(member, password)
             THEN /\ session_state' = [session_state EXCEPT ![s].authenticated = TRUE,
                                                            ![s].username = Str(member.username)]
                  /\ cookies' = [cookies EXCEPT ![s] =
                                    encode_token(member.username, now + TOKEN_DURATION_HOURS * HOUR)]
                  /\ history' = [history EXCEPT ![s] = "login"]
             ELSE UNCHANGED <<session_state, cookies, history>>
    /\ UNCHANGED <<feed, posted, members, thread, newsVars>>

\* header.py:53-55 and app.py:49-51: the Logout button
Logout(s) ==
    /\ session_state[s].authenticated
    /\ session_state' = [session_state EXCEPT ![s].authenticated = FALSE]
    /\ history' = [history EXCEPT ![s] = "logout"]
    /\ UNCHANGED <<feed, posted, members, thread, cookies, newsVars>>

\* cookies.py:111-153, called when the script runs, before the login form
restore_session_from_cookie(s) ==
    /\ thread[s] = Idle
    /\ IF session_state[s].authenticated \/ cookies[s] = None
       THEN UNCHANGED <<session_state, cookies>>
       ELSE LET username == decode_token(cookies[s])
                member == MemberOf(members, username)
            IN IF username = None \/ member = None
               THEN /\ cookies' = [cookies EXCEPT ![s] = None]
                    /\ UNCHANGED session_state
               ELSE /\ session_state' = [session_state EXCEPT ![s].authenticated = TRUE,
                                                              ![s].username = Str(member.username)]
                    /\ UNCHANGED cookies
    /\ UNCHANGED <<feed, posted, members, thread, history, newsVars>>

\* time passes, half a day at a time
HalfDay ==
    /\ now < MaxDays * 24 * HOUR
    /\ now' = now + 12 * HOUR
    /\ UNCHANGED <<pipeVars, cache, histVars, adapterVars, flightVars, portfolioVars, appVars>>

NextCookie ==
    \/ \E s \in Sessions : LoginRemembered(s) \/ Logout(s) \/ restore_session_from_cookie(s)
    \/ HalfDay

SpecCookie == InitCookie /\ [][NextCookie]_vars

C26_RestoredAfterLogout ==
    \E s \in Sessions : history[s] = "logout" /\ session_state[s].authenticated

-----------------------------------------------------------------------------
(* render_settings_page, ui/settings.py:11-141: the profile form and the    *)
(* admin's "Create new user" form, in concurrent sessions of logged-in      *)
(* members.  A handler is a sequence of requests to the database; requests  *)
(* of different sessions interleave.                                        *)

MaxMembers == 3
MaxForms == 1

\* what the members type into the profile form
TypedNicknames == {"ann", "bob", "zed"}
TypedEmails == {"ann@x", "bob@x", "new@x"}
TypedPasswordPairs == {<<0, 0>>, <<3, 3>>, <<3, 0>>}

\* the full names the admin types into the create-user form
TypedFullNames == {"Zed"}

\* ui/settings.py:82-83: strip, lower, blanks and hyphens to underscores
BaseUsername(new_name) == IF new_name = "Zed" THEN "zed" ELSE new_name

\* ui/settings.py:84-88: the base name, or the base name with the counter appended
Candidate(base_username, i) == IF i = 0 THEN base_username ELSE base_username \o ToString(i)

\* ui/settings.py:84-88: the first candidate no row has
FreeUsername(tbl, base_username) ==
    Candidate(base_username,
              SetMin({i \in 0..Len(tbl) : get_member_by_username(tbl, Candidate(base_username, i)) = None}))

LoggedIn(username) == [authenticated |-> TRUE, reset_step |-> "login", reset_username |-> None,
                       username |-> Str(username)]

\* every session is logged in as one of the members
InitSettings ==
    /\ members = Members0
    /\ session_state \in [Sessions -> {LoggedIn(Members0[i].username) : i \in 1..Len(Members0)}]
    /\ thread = [s \in Sessions |-> Idle]
    /\ history = [s \in Sessions |-> 0]
    /\ cookies = <<>>
    /\ feed = {}
    /\ posted = 0
    /\ NewsIdle

\* ui/settings.py:15-29: the row of the logged-in member is read, the form is
\* submitted, and for a changed nickname the table is asked whether it is taken
SubmitProfile(s) ==
    /\ thread[s] = Idle
    /\ session_state[s].authenticated
    /\ history[s] < MaxForms
    /\ history' = [history EXCEPT ![s] = history[s] + 1]
    /\ LET member == MemberOf(members, session_state[s].username)
       IN /\ member # None
          /\ \E nickname \in TypedNicknames, email \in TypedEmails, pw \in TypedPasswordPairs :
                thread' = [thread EXCEPT ![s] =
                              [pc |-> "username", member |-> member, nickname |-> nickname,
                               email |-> email, new_password |-> pw[1], confirm_password |-> pw[2],
                               existing |-> IF nickname # member.username
                                            THEN get_member_by_username(members, nickname)
                                            ELSE None]]
    /\ UNCHANGED <<feed, posted, members, session_state, cookies, newsVars>>

\* ui/settings.py:27-35
SaveUsername(s) ==
    /\ thread[s].pc = "username"
    /\ IF thread[s].nickname # thread[s].member.username /\ thread[s].existing = None
       THEN /\ members' = update_username(members, thread[s].member.username, thread[s].nickname)
            /\ session_state' = [session_state EXCEPT ![s].username = Str(thread[s].nickname)]
       ELSE UNCHANGED <<members, session_state>>
    /\ thread' = [thread EXCEPT ![s].pc = "email"]
    /\ UNCHANGED <<feed, posted, cookies, history, newsVars>>

\* ui/settings.py:36-40: update_email(nickname, email)
SaveEmail(s) ==
    /\ thread[s].pc = "email"
    /\ members' = IF thread[s].email # thread[s].member.email
                  THEN update_email(members, thread[s].nickname, thread[s].email)
                  ELSE members
    /\ thread' = [thread EXCEPT ![s].pc = "password"]
    /\ UNCHANGED <<feed, posted, session_state, cookies, history, newsVars>>

\* ui/settings.py:48-49: member.set_password(new_password) returns the new hash
\* (backend.py:88-104); member.password_hash is then read from a Member that
\* src/lib/backend.py does not give that attribute: the read fails, or yields
\* the hash the row was read with, or the new hash
PasswordHashes(member, new_password) == {None, member.password, set_password(new_password)}

\* ui/settings.py:41-54: update_password(nickname, member.password_hash)
SavePassword(s) ==
    /\ thread[s].pc = "password"
    /\ IF thread[s].new_password # 0 /\ thread[s].new_password = thread[s].confirm_password
       THEN \E password_hash \in PasswordHashes(thread[s].member, thread[s].new_password) :
               members' = IF password_hash = None
                          THEN members
                          ELSE update_password(members, thread[s].nickname, password_hash)
       ELSE UNCHANGED members
    /\ thread' = [thread EXCEPT ![s] = Idle]
    /\ UNCHANGED <<feed, posted, session_state, cookies, history, newsVars>>

\* ui/settings.py:57, 77-95: the admin submits the create-user form; the loop
\* asks the table for a user name no row has
SubmitCreateUser(s) ==
    /\ thread[s] = Idle
    /\ session_state[s].authenticated
    /\ history[s] < MaxForms
    /\ history' = [history EXCEPT ![s] = history[s] + 1]
    /\ Len(members) < MaxMembers
    /\ LET admin == MemberOf(members, session_state[s].username)
       IN admin # None /\ admin.is_admin
    /\ \E new_name \in TypedFullNames :
          thread' = [thread EXCEPT ![s] =
                        [pc |-> "create", new_name |-> new_name,
                         username |-> FreeUsername(members, BaseUsername(new_name))]]
    /\ UNCHANGED <<feed, posted, members, session_state, cookies, newsVars>>

\* ui/settings.py:98: the row is inserted
InsertUser(s) ==
    /\ thread[s].pc = "create"
    /\ members' = create_member(members, thread[s].username, thread[s].new_name, "new@x", FALSE,
                                set_password(9), generate_reset_code(members))
    /\ thread' = [thread EXCEPT ![s] = Idle]
    /\ UNCHANGED <<feed, posted, session_state, cookies, history, newsVars>>

NextSettings ==
    \E s \in Sessions :
        \/ SubmitProfile(s) \/ SaveUsername(s) \/ SaveEmail(s) \/ SavePassword(s)
        \/ SubmitCreateUser(s) \/ InsertUser(s)

SpecSettings == InitSettings /\ [][NextSettings]_vars

\* session s is saving its profile form
SavingProfile(s) == thread[s].pc \in {"username", "email", "password"}

====
